---- MODULE Spec2Model ----
(***************************************************************************)
(* Model of the in-memory retrieval-and-response engine of DocSpotlight    *)
(* (src/doc-qa-app - Python/backend_api.py): the document store and its    *)
(* startup rebuild, the citation tracker, the multi-document collection    *)
(* manager, the response cache, the conversation manager and the chat      *)
(* endpoint.                                                               *)
(*                                                                         *)
(* Conventions.  A Python dict is a TLA+ function whose DOMAIN is the set  *)
(* of keys; the response cache, whose insertion order matters to the       *)
(* eviction sort, is a sequence of entries in dict order.  A Python list   *)
(* is a sequence; Python's 0-based position p is element p + 1.  A chunk   *)
(* text is a string token, an embedding vector is the pair of the embedder *)
(* that produced it and the text it embeds, and an md5 digest is the       *)
(* string it digests (the digest is taken to be collision free).           *)
(* Confidences are in hundredths (80 is 0.8).                              *)
(***************************************************************************)
EXTENDS Integers, Sequences, FiniteSets, TLC

VARIABLES
    project_id,            \* TRUE when google.auth.default() gave a project
    USE_FAKE,              \* the USE_FAKE_EMBED environment flag
    DOC_TEXT,              \* doc_id -> list of chunks
    DOC_INDEX,             \* doc_id -> vector index
    DOC_METADATA,          \* doc_id -> metadata
    DOC_FILES,             \* doc_id -> path of the saved PDF
    CHUNK_METADATA,        \* doc_id -> list of chunk citation metadata
    DOCUMENT_COLLECTIONS,  \* collection_id -> list of doc_ids
    CROSS_DOC_INDEX,       \* collection_id -> combined index
    CROSS_DOC_MAP,         \* collection_id -> vector-to-document map
                           \* (the code keeps it in CROSS_DOC_INDEX under
                           \* the key collection_id + "_map")
    RESPONSE_CACHE,        \* list of [key, response, timestamp] in dict order
    CONVERSATION_MEMORY,   \* session_id -> list of turns
    disk,                  \* storage/doc_metadata.json and doc_files.json
    now,                   \* time.time()
    recorded,              \* history: every turn passed to add_to_history
    steps,                 \* history: number of operations of each kind
    out,                   \* the result of the last operation
    db                     \* the database of the chat persistence: the tables
                           \* chats, messages, documents and chat_documents

vars == << project_id, USE_FAKE, DOC_TEXT, DOC_INDEX, DOC_METADATA, DOC_FILES,
           CHUNK_METADATA, DOCUMENT_COLLECTIONS, CROSS_DOC_INDEX, CROSS_DOC_MAP,
           RESPONSE_CACHE, CONVERSATION_MEMORY, disk, now, recorded, steps, out, db >>

storeVars == << DOC_TEXT, DOC_INDEX, DOC_METADATA, DOC_FILES, CHUNK_METADATA >>
collVars  == << DOCUMENT_COLLECTIONS, CROSS_DOC_INDEX, CROSS_DOC_MAP >>
envVars   == << project_id, USE_FAKE >>

(***************************************************************************)
(* Bounds of the model.                                                    *)
(***************************************************************************)
MaxDocs        == 2   \* document ids os.urandom can draw
MaxChunks      == 2   \* chunks the splitter cuts from one PDF
MaxPages       == 3   \* pages of one PDF
MaxMembers     == 2   \* doc_ids in one create_collection request
MaxCollections == 2   \* successful or failed create_collection calls
MaxRestarts    == 1   \* process restarts
MaxK           == 5   \* k of a collection search
MaxSearches    == 1   \* collection searches
MaxPuts        == 2   \* direct cache_response calls
MaxGets        == 2   \* direct get_cached_response calls
MaxTicks       == 2   \* advances of the clock
MaxClears      == 1   \* cache clearings
MaxRecordings  == 15  \* direct add_to_history calls
MaxChats       == 2   \* chat requests
MaxLongChunks  == 4   \* chunks of a PDF longer than a search's k of 3
MaxFailures    == 2   \* consecutive failures of a language model that recovers
RecursionLimit == 4   \* recursion depth at which the interpreter raises
                      \* RecursionError (sys.getrecursionlimit(), scaled down)

(***************************************************************************)
(* Generic helpers: dicts and Python lists.                                *)
(***************************************************************************)
EmptyDict == << >>

DictPut(d, k, v) == [x \in DOMAIN d \cup {k} |-> IF x = k THEN v ELSE d[x]]

DictUpdate(d, e) == [x \in DOMAIN d \cup DOMAIN e |-> IF x \in DOMAIN e THEN e[x] ELSE d[x]]

\* list[idx] for an idx the list accepts: a negative idx counts from the end
PyIndex(list, idx) == IF idx >= 0 THEN list[idx + 1] ELSE list[Len(list) + idx + 1]

RECURSIVE Join(_, _)
Join(parts, sep) ==
    IF Len(parts) = 0 THEN ""
    ELSE IF Len(parts) = 1 THEN parts[1]
    ELSE parts[1] \o sep \o Join(Tail(parts), sep)

RECURSIVE Repeat(_, _)
Repeat(x, n) == IF n = 0 THEN << >> ELSE << x >> \o Repeat(x, n - 1)

Bump(kind) == [steps EXCEPT ![kind] = @ + 1]

(***************************************************************************)
(* PDF files.  A file is what pypdf and a splitter make of it: whether     *)
(* PdfReader can open it, its page count, the pages whose extract_text()   *)
(* raises, and, per chunk, the page whose extracted text contains the      *)
(* chunk's first 100 characters (0: no single page does: the chunk starts  *)
(* across the break between two pages of text).  Chunks are in text order. *)
(* The pages are                                                           *)
(* the file's own; the chunks depend on the splitter, and the upload       *)
(* (chunk_size 1000) and the startup rebuild (chunk_size 800) may cut the  *)
(* same text differently.                                                  *)
(***************************************************************************)
DocIds == {"d" \o ToString(i) : i \in 1..MaxDocs}

HomesOf(np, bad) ==
    LET good == (1..np) \ bad
    IN  IF good = {} THEN {<< >>}
        ELSE UNION {{h \in [1..n -> good \cup (IF Cardinality(good) >= 2 THEN {0} ELSE {})] :
                        \A i, j \in 1..n : (i < j /\ h[i] # 0 /\ h[j] # 0) => h[i] <= h[j]}
                    : n \in 0..MaxChunks}

\* the files of at most maxp pages
PdfFilesUpTo(maxp) ==
    {[readable |-> FALSE, npages |-> 0, bad |-> {}, home |-> << >>]}
    \cup UNION {UNION {{[readable |-> TRUE, npages |-> np, bad |-> b, home |-> h]
                          : h \in HomesOf(np, b)}
                       : b \in SUBSET (1..np)}
                : np \in 0..maxp}

PdfFiles == PdfFilesUpTo(MaxPages)

\* single-page files of one to MaxLongChunks chunks
LongPdfFiles ==
    {[readable |-> TRUE, npages |-> 1, bad |-> {}, home |-> [i \in 1..n |-> 1]]
        : n \in 1..MaxLongChunks}

\* single-page files whose page extracts
PlainPdfFiles == {f \in PdfFilesUpTo(1) : f.bad = {}}

\* [c for c in splitter.split_text(full_text) if c.strip()]
ChunksOf(doc_id, f) == [i \in 1..Len(f.home) |-> doc_id \o ":" \o ToString(i)]

(***************************************************************************)
(* Embedding and vector index.                                             *)
(***************************************************************************)
Embed(embedder, text) == [embedder |-> embedder, text |-> text]

\* faiss.IndexFlatL2(arr.shape[1]); index.add(arr).  arr.shape[1] raises
\* IndexError for an empty list of vectors.
FlatIndex(embedder, chunks) ==
    [embedder |-> embedder, vecs |-> [i \in 1..Len(chunks) |-> Embed(embedder, chunks[i])]]

ntotal(index) == Len(index.vecs)

\* build_index: it raises, or returns the index
BuildIndex(use_fake, chunks, vertex_ok) ==
    IF Len(chunks) = 0 THEN [raised |-> TRUE]
    ELSE IF use_fake THEN [raised |-> FALSE, index |-> FlatIndex("fallback", chunks)]
    ELSE IF vertex_ok THEN [raised |-> FALSE, index |-> FlatIndex("vertex", chunks)]
    ELSE [raised |-> TRUE]

CreateSimpleFaissIndex(chunks) ==
    IF Len(chunks) = 0 THEN [raised |-> TRUE]
    ELSE [raised |-> FALSE, index |-> FlatIndex("fallback", chunks)]

(***************************************************************************)
(* CitationTracker.add_chunk_metadata                                      *)
(***************************************************************************)
ChunkPosition(i, n) ==
    IF 10 * i < n THEN "top" ELSE IF 10 * i > 9 * n THEN "bottom" ELSE "middle"

ChunkMeta(i, page, position) == [chunk_id |-> i, page_number |-> page, position |-> position]

\* the except branch: one coarse entry per chunk, appended to what is there
CoarseFallback(acc, n) ==
    acc \o [j \in 1..n |-> ChunkMeta(j - 1, IF (j - 1) \div 3 + 1 > 1 THEN (j - 1) \div 3 + 1 ELSE 1, "middle")]

\* the for loop of the try branch from chunk i (0-based) on; loaded is the
\* page whose text page_text holds
RECURSIVE CitationLoop(_, _, _, _, _)
CitationLoop(f, i, current_page, loaded, acc) ==
    LET n == Len(f.home)
    IN  IF i >= n THEN [raised |-> FALSE, list |-> acc]
        ELSE IF f.home[i + 1] # 0 /\ f.home[i + 1] = loaded
             THEN CitationLoop(f, i + 1, current_page, loaded,
                               Append(acc, ChunkMeta(i, current_page, ChunkPosition(i, n))))
        ELSE IF current_page < f.npages
             THEN IF (current_page + 1) \in f.bad
                  THEN [raised |-> TRUE, list |-> acc]
                  ELSE CitationLoop(f, i + 1, current_page + 1, current_page + 1,
                                    Append(acc, ChunkMeta(i, current_page + 1, ChunkPosition(i, n))))
        ELSE CitationLoop(f, i + 1, current_page, loaded,
                          Append(acc, ChunkMeta(i, current_page, ChunkPosition(i, n))))

\* the new value of CHUNK_METADATA[doc_id], from its old value
AddChunkMetadata(old, f) ==
    LET n == Len(f.home)
        try == IF ~f.readable THEN [raised |-> TRUE, list |-> old]
               ELSE IF 1 <= f.npages /\ 1 \in f.bad THEN [raised |-> TRUE, list |-> old]
               ELSE CitationLoop(f, 0, 1, IF 1 <= f.npages THEN 1 ELSE 0, old)
    IN  IF try.raised THEN CoarseFallback(try.list, n) ELSE try.list

OldChunkMetadata(doc_id) ==
    IF doc_id \in DOMAIN CHUNK_METADATA THEN CHUNK_METADATA[doc_id] ELSE << >>

(***************************************************************************)
(* DocumentPersistence                                                     *)
(***************************************************************************)
NoFile == [exists |-> FALSE, data |-> EmptyDict]

\* save_document_data: json.dump of DOC_METADATA, then of DOC_FILES; a
\* failure is caught and leaves what was written before it
SaveOutcomes == {"saved", "metadata_failed", "files_failed"}

SaveDocumentData(outcome, metadata, files, uploads) ==
    CASE outcome = "saved" ->
            [metadata |-> [exists |-> TRUE, data |-> metadata],
             files    |-> [exists |-> TRUE, data |-> files],
             uploads  |-> uploads]
      [] outcome = "files_failed" ->
            [metadata |-> [exists |-> TRUE, data |-> metadata],
             files    |-> disk.files,
             uploads  |-> uploads]
      [] OTHER -> [disk EXCEPT !.uploads = uploads]

\* the module globals as the module body leaves them, the cache and the clock aside
InitGlobals ==
    /\ DOC_TEXT = EmptyDict
    /\ DOC_INDEX = EmptyDict
    /\ DOC_METADATA = EmptyDict
    /\ DOC_FILES = EmptyDict
    /\ CHUNK_METADATA = EmptyDict
    /\ DOCUMENT_COLLECTIONS = EmptyDict
    /\ CROSS_DOC_INDEX = EmptyDict
    /\ CROSS_DOC_MAP = EmptyDict
    /\ CONVERSATION_MEMORY = EmptyDict
    /\ disk = [metadata |-> NoFile, files |-> NoFile, uploads |-> EmptyDict]
    /\ recorded = EmptyDict
    /\ steps = [k \in {"restart", "collection", "search", "tick", "put", "get", "clear",
                       "record", "chat"} |-> 0]
    /\ out = [op |-> "init"]
    /\ db = [chats |-> EmptyDict, messages |-> EmptyDict, documents |-> EmptyDict,
             chat_documents |-> {}]

Init ==
    /\ project_id \in BOOLEAN
    /\ USE_FAKE \in BOOLEAN
    /\ InitGlobals
    /\ RESPONSE_CACHE = << >>
    /\ now = 0

(***************************************************************************)
(* POST /upload                                                            *)
(***************************************************************************)
\* os.urandom(8).hex(): an id no document has, in memory or on disk.  The ids
\* are interchangeable, and the model draws the first unused one.
UsedIds == DOMAIN DOC_TEXT \cup DOMAIN DOC_METADATA \cup DOMAIN DOC_FILES \cup DOMAIN disk.uploads

FreshIds ==
    {"d" \o ToString(i) : i \in {j \in 1..MaxDocs :
        /\ ("d" \o ToString(j)) \notin UsedIds
        /\ \A k \in 1..(j - 1) : ("d" \o ToString(k)) \in UsedIds}}

\* the index of the inner try, or raised when the simple index fails too
UploadIndex(chunks, vertex_ok) ==
    LET first == IF project_id THEN BuildIndex(USE_FAKE, chunks, vertex_ok)
                 ELSE CreateSimpleFaissIndex(chunks)
    IN  IF first.raised THEN CreateSimpleFaissIndex(chunks) ELSE first

UploadRejected(status) ==
    /\ out' = [op |-> "upload", status |-> status]
    /\ UNCHANGED << envVars, db, storeVars, collVars, RESPONSE_CACHE, CONVERSATION_MEMORY,
                    disk, now, recorded, steps >>

UploadStored(doc_id, f, chunks, index, save) ==
    /\ DOC_TEXT' = DictPut(DOC_TEXT, doc_id, chunks)
    /\ DOC_INDEX' = DictPut(DOC_INDEX, doc_id, index)
    /\ DOC_FILES' = DictPut(DOC_FILES, doc_id, doc_id \o ".pdf")
    /\ DOC_METADATA' = DictPut(DOC_METADATA, doc_id, [pages_count |-> f.npages])
    /\ CHUNK_METADATA' = DictPut(CHUNK_METADATA, doc_id,
                                 AddChunkMetadata(OldChunkMetadata(doc_id), f))
    /\ disk' = SaveDocumentData(save, DOC_METADATA', DOC_FILES',
                                DictPut(disk.uploads, doc_id, [npages |-> f.npages, bad |-> f.bad]))
    /\ out' = [op |-> "upload", status |-> 200, doc_id |-> doc_id, chunks |-> Len(chunks)]
    /\ UNCHANGED << envVars, db, collVars, RESPONSE_CACHE, CONVERSATION_MEMORY, now,
                    recorded, steps >>

ContentTypes == {"application/pdf", "text/plain"}

\* the handler, for a content type of content_types, a file of files and a
\* save outcome of saves
Upload(content_types, files, saves) ==
    \E content_type \in content_types :
        IF content_type # "application/pdf" THEN UploadRejected(400)
        ELSE \E doc_id \in FreshIds, f \in files :
             IF ~f.readable THEN UploadRejected(500)
             ELSE \E vertex_ok \in (IF project_id /\ ~USE_FAKE THEN BOOLEAN ELSE {TRUE}) :
                  LET chunks == ChunksOf(doc_id, f)
                      built  == UploadIndex(chunks, vertex_ok)
                  IN  IF built.raised THEN UploadRejected(500)
                      ELSE \E save \in saves : UploadStored(doc_id, f, chunks, built.index, save)

upload_pdf == Upload(ContentTypes, PdfFiles, SaveOutcomes)

(***************************************************************************)
(* Process restart: the module globals are empty again and startup_event   *)
(* runs DocumentPersistence.load_document_data, which runs rebuild_indexes.*)
(* Every path of doc_files.json names a PDF the upload kept, so the        *)
(* os.path.exists test passes.                                             *)
(***************************************************************************)
\* the saved PDF of doc_id as the rebuild's splitter cuts it
RebuildFiles(doc_id) ==
    LET pdf == disk.uploads[doc_id]
    IN  {[readable |-> TRUE, npages |-> pdf.npages, bad |-> pdf.bad, home |-> h]
            : h \in {g \in HomesOf(pdf.npages, pdf.bad) : Len(g) >= 1}}

\* one iteration of the for loop of rebuild_indexes
RebuildOne(doc_id, f, vertex_ok) ==
    LET chunks == ChunksOf(doc_id, f)
        built  == IF project_id /\ Len(chunks) > 0
                  THEN BuildIndex(USE_FAKE, chunks, vertex_ok) ELSE [raised |-> TRUE]
    IN  IF ~built.raised
        THEN [stored |-> TRUE, chunks |-> chunks, index |-> built.index,
              citations |-> AddChunkMetadata(<< >>, f)]
        ELSE [stored |-> FALSE]

RebuildOutcomes(doc_id) ==
    {RebuildOne(doc_id, f, v) : f \in RebuildFiles(doc_id),
                                v \in (IF project_id /\ ~USE_FAKE THEN BOOLEAN ELSE {TRUE})}

\* the outcomes of the whole loop: one per document of doc_files.json
RECURSIVE RebuildAll(_)
RebuildAll(docs) ==
    IF docs = {} THEN {EmptyDict}
    ELSE LET d == CHOOSE x \in docs : TRUE
         IN  {DictPut(r, d, o) : r \in RebuildAll(docs \ {d}), o \in RebuildOutcomes(d)}

startup_event ==
    /\ steps["restart"] < MaxRestarts
    /\ IF disk.metadata.exists /\ disk.files.exists
       THEN LET files == disk.files.data
            IN  \E r \in RebuildAll(DOMAIN files) :
                    LET ok == {d \in DOMAIN files : r[d].stored}
                    IN  /\ DOC_METADATA' = disk.metadata.data
                        /\ DOC_FILES' = files
                        /\ DOC_TEXT' = [d \in ok |-> r[d].chunks]
                        /\ DOC_INDEX' = [d \in ok |-> r[d].index]
                        /\ CHUNK_METADATA' = [d \in ok |-> r[d].citations]
       ELSE /\ DOC_METADATA' = EmptyDict
            /\ DOC_FILES' = EmptyDict
            /\ DOC_TEXT' = EmptyDict
            /\ DOC_INDEX' = EmptyDict
            /\ CHUNK_METADATA' = EmptyDict
    /\ DOCUMENT_COLLECTIONS' = EmptyDict
    /\ CROSS_DOC_INDEX' = EmptyDict
    /\ CROSS_DOC_MAP' = EmptyDict
    /\ RESPONSE_CACHE' = << >>
    /\ CONVERSATION_MEMORY' = EmptyDict
    /\ recorded' = EmptyDict
    /\ steps' = Bump("restart")
    /\ out' = [op |-> "startup"]
    /\ UNCHANGED << envVars, db, disk, now >>

(***************************************************************************)
(* MultiDocumentManager                                                    *)
(***************************************************************************)
CollectionNames == {"c"}

\* the lists of at most MaxMembers ids, over ids
RECURSIVE IdLists(_, _)
IdLists(ids, len) ==
    IF len = 0 THEN {<< >>}
    ELSE IdLists(ids, len - 1)
         \cup {Append(l, d) : l \in {m \in IdLists(ids, len - 1) : Len(m) = len - 1}, d \in ids}

\* hashlib.md5(f"{collection_name}_{'-'.join(doc_ids)}".encode()).hexdigest()[:12]
CollectionId(collection_name, doc_ids) == collection_name \o "_" \o Join(doc_ids, "-")

\* a build that files each document's block in front of the earlier ones
RECURSIVE CollectVectorsReversed(_)
CollectVectorsReversed(doc_ids) ==
    IF Len(doc_ids) = 0 THEN [all_vectors |-> << >>, vector_to_doc_map |-> << >>]
    ELSE LET rest   == CollectVectorsReversed(Tail(doc_ids))
             doc_id == Head(doc_ids)
         IN  IF doc_id \in DOMAIN DOC_INDEX
             THEN [all_vectors |-> rest.all_vectors \o DOC_INDEX[doc_id].vecs,
                   vector_to_doc_map |-> rest.vector_to_doc_map
                                         \o Repeat(doc_id, ntotal(DOC_INDEX[doc_id]))]
             ELSE rest

\* the loop of _build_collection_index: all_vectors and vector_to_doc_map
RECURSIVE CollectVectors(_)
CollectVectors(doc_ids) ==
    IF Len(doc_ids) = 0 THEN [all_vectors |-> << >>, vector_to_doc_map |-> << >>]
    ELSE LET rest   == CollectVectors(Tail(doc_ids))
             doc_id == Head(doc_ids)
         IN  IF doc_id \in DOMAIN DOC_INDEX
             THEN [all_vectors |-> DOC_INDEX[doc_id].vecs \o rest.all_vectors,
                   vector_to_doc_map |-> Repeat(doc_id, ntotal(DOC_INDEX[doc_id]))
                                         \o rest.vector_to_doc_map]
             ELSE rest

\* np.array(all_vectors, dtype='float32') raises ValueError when the rows differ
\* in length: the semantic and the fallback embedder differ in dimension
Ragged(all_vectors) ==
    \E i, j \in 1..Len(all_vectors) : all_vectors[i].embedder # all_vectors[j].embedder

\* a build that adds the vectors to the index the collection id already has
CreateDocumentCollectionAppending(collection_name, doc_ids, raised) ==
    LET collection_id == CollectionId(collection_name, doc_ids)
        built         == CollectVectors(doc_ids)
        old_vecs      == IF collection_id \in DOMAIN CROSS_DOC_INDEX
                         THEN CROSS_DOC_INDEX[collection_id].vecs ELSE << >>
        old_map       == IF collection_id \in DOMAIN CROSS_DOC_MAP
                         THEN CROSS_DOC_MAP[collection_id] ELSE << >>
    IN  /\ raised = FALSE
        /\ DOCUMENT_COLLECTIONS' = DictPut(DOCUMENT_COLLECTIONS, collection_id, doc_ids)
        /\ CROSS_DOC_INDEX' = DictPut(CROSS_DOC_INDEX, collection_id,
                [embedder |-> "fallback", vecs |-> old_vecs \o built.all_vectors])
        /\ CROSS_DOC_MAP' = DictPut(CROSS_DOC_MAP, collection_id,
                old_map \o built.vector_to_doc_map)

\* create_document_collection with _build_collection_index; raised tells
\* whether the call ends in an exception
CreateDocumentCollection(collection_name, doc_ids, raised) ==
    LET collection_id == CollectionId(collection_name, doc_ids)
        built         == CollectVectors(doc_ids)
    IN  /\ DOCUMENT_COLLECTIONS' = DictPut(DOCUMENT_COLLECTIONS, collection_id, doc_ids)
        /\ IF Len(built.all_vectors) = 0
           THEN /\ raised = FALSE
                /\ UNCHANGED << CROSS_DOC_INDEX, CROSS_DOC_MAP >>
           ELSE IF Ragged(built.all_vectors)
           THEN /\ raised = TRUE
                /\ UNCHANGED << CROSS_DOC_INDEX, CROSS_DOC_MAP >>
           ELSE /\ raised = FALSE
                /\ CROSS_DOC_INDEX' = DictPut(CROSS_DOC_INDEX, collection_id,
                        [embedder |-> built.all_vectors[1].embedder, vecs |-> built.all_vectors])
                /\ CROSS_DOC_MAP' = DictPut(CROSS_DOC_MAP, collection_id, built.vector_to_doc_map)

\* POST /collections/create
create_collection ==
    /\ steps["collection"] < MaxCollections
    /\ steps' = Bump("collection")
    /\ \E collection_name \in CollectionNames, doc_ids \in IdLists(DocIds, MaxMembers) :
        IF Len(doc_ids) = 0
        THEN /\ out' = [op |-> "create_collection", status |-> 400,
                        collection_id |-> CollectionId(collection_name, doc_ids),
                        existed |-> CollectionId(collection_name, doc_ids)
                                        \in DOMAIN DOCUMENT_COLLECTIONS,
                        doc_ids |-> doc_ids]
             /\ UNCHANGED collVars
        ELSE IF \E i \in 1..Len(doc_ids) : doc_ids[i] \notin DOMAIN DOC_TEXT
        THEN /\ out' = [op |-> "create_collection", status |-> 404,
                        collection_id |-> CollectionId(collection_name, doc_ids),
                        existed |-> CollectionId(collection_name, doc_ids)
                                        \in DOMAIN DOCUMENT_COLLECTIONS,
                        doc_ids |-> doc_ids]
             /\ UNCHANGED collVars
        ELSE \E raised \in BOOLEAN :
             /\ CreateDocumentCollection(collection_name, doc_ids, raised)
             /\ out' = [op |-> "create_collection", status |-> IF raised THEN 500 ELSE 200,
                        collection_id |-> CollectionId(collection_name, doc_ids),
                        existed |-> CollectionId(collection_name, doc_ids)
                                        \in DOMAIN DOCUMENT_COLLECTIONS,
                        doc_ids |-> doc_ids]
    /\ UNCHANGED << envVars, db, storeVars, RESPONSE_CACHE, CONVERSATION_MEMORY, disk, now,
                    recorded >>

\* a direct call of MultiDocumentManager.create_document_collection, with ids
\* of stored documents or of others; status 500 stands for the exception
\* that leaves the call
create_document_collection ==
    /\ steps["collection"] < MaxCollections
    /\ steps' = Bump("collection")
    /\ \E collection_name \in CollectionNames, doc_ids \in IdLists(DocIds, MaxMembers),
          raised \in BOOLEAN :
        /\ CreateDocumentCollection(collection_name, doc_ids, raised)
        /\ out' = [op |-> "create_document_collection",
                   status |-> IF raised THEN 500 ELSE 200,
                   collection_id |-> CollectionId(collection_name, doc_ids),
                   existed |-> CollectionId(collection_name, doc_ids)
                                   \in DOMAIN DOCUMENT_COLLECTIONS,
                   doc_ids |-> doc_ids]
    /\ UNCHANGED << envVars, db, storeVars, RESPONSE_CACHE, CONVERSATION_MEMORY, disk, now,
                    recorded >>

(***************************************************************************)
(* index.search(query, k) of a flat L2 index: the positions of the         *)
(* min(k, ntotal) nearest vectors, nearest first, then -1 up to k.  The    *)
(* queries of the model are one per stored vector and per direction: the   *)
(* vector at position p is the nearest, and the others follow in           *)
(* ascending or in descending order of position.                           *)
(***************************************************************************)
RECURSIVE Ascending(_, _)
Ascending(from, to) == IF from > to THEN << >> ELSE << from >> \o Ascending(from + 1, to)

Reverse(list) == [i \in 1..Len(list) |-> list[Len(list) + 1 - i]]

Rankings(n) ==
    UNION {{<< p >> \o Ascending(0, p - 1) \o Ascending(p + 1, n - 1),
            << p >> \o Reverse(Ascending(0, p - 1) \o Ascending(p + 1, n - 1))}
           : p \in 0..(n - 1)}

FaissSearch(index, k) ==
    {[i \in 1..k |-> IF i <= ntotal(index) THEN r[i] ELSE -1] : r \in Rankings(ntotal(index))}

\* the for loop of search_across_documents from position i of indices on
RECURSIVE SearchLoop(_, _, _)
SearchLoop(vector_map, indices, i) ==
    IF i > Len(indices) THEN << >>
    ELSE LET idx == indices[i]
         IN  IF idx < Len(vector_map)
             THEN LET doc_id     == PyIndex(vector_map, idx)
                      doc_chunks == IF doc_id \in DOMAIN DOC_TEXT THEN DOC_TEXT[doc_id] ELSE << >>
                  IN  IF idx < Len(doc_chunks)
                      THEN << [doc_id |-> doc_id, chunk |-> PyIndex(doc_chunks, idx),
                               chunk_index |-> idx] >>
                           \o SearchLoop(vector_map, indices, i + 1)
                      ELSE SearchLoop(vector_map, indices, i + 1)
             ELSE SearchLoop(vector_map, indices, i + 1)

\* search_across_documents, given what index.search returned
SearchAcrossDocuments(collection_id, indices) ==
    IF collection_id \notin DOMAIN CROSS_DOC_INDEX THEN << >>
    ELSE SearchLoop(IF collection_id \in DOMAIN CROSS_DOC_MAP
                    THEN CROSS_DOC_MAP[collection_id] ELSE << >>, indices, 1)

\* a call of MultiDocumentManager.search_across_documents with a query vector
\* of the combined index's dimension
search_collection ==
    /\ steps["search"] < MaxSearches
    /\ steps' = Bump("search")
    /\ \E collection_id \in DOMAIN DOCUMENT_COLLECTIONS, k \in 1..MaxK :
        IF collection_id \notin DOMAIN CROSS_DOC_INDEX
        THEN out' = [op |-> "search", collection_id |-> collection_id, k |-> k,
                     indices |-> << >>, results |-> SearchAcrossDocuments(collection_id, << >>)]
        ELSE \E indices \in FaissSearch(CROSS_DOC_INDEX[collection_id], k) :
             out' = [op |-> "search", collection_id |-> collection_id, k |-> k,
                     indices |-> indices,
                     results |-> SearchAcrossDocuments(collection_id, indices)]
    /\ UNCHANGED << envVars, db, storeVars, collVars, RESPONSE_CACHE, CONVERSATION_MEMORY,
                    disk, now, recorded >>

(***************************************************************************)
(* Strings: str.lower() and str.strip() over ASCII.                        *)
(***************************************************************************)
UpperLetters == "ABCDEFGHIJKLMNOPQRSTUVWXYZ"
LowerLetters == "abcdefghijklmnopqrstuvwxyz"

CharAt(s, i) == SubSeq(s, i, i)

LowerOf == [c \in {CharAt(UpperLetters, i) : i \in 1..Len(UpperLetters)} |->
               CharAt(LowerLetters, CHOOSE i \in 1..Len(UpperLetters) : CharAt(UpperLetters, i) = c)]

LowerChar(c) == IF c \in DOMAIN LowerOf THEN LowerOf[c] ELSE c

RECURSIVE Lower(_)
Lower(s) == IF Len(s) = 0 THEN "" ELSE LowerChar(CharAt(s, 1)) \o Lower(SubSeq(s, 2, Len(s)))

IsSpace(c) == c \in {" ", "\t", "\n", "\r"}

RECURSIVE LStrip(_)
LStrip(s) == IF Len(s) > 0 /\ IsSpace(CharAt(s, 1)) THEN LStrip(SubSeq(s, 2, Len(s))) ELSE s

RECURSIVE RStrip(_)
RStrip(s) ==
    IF Len(s) > 0 /\ IsSpace(CharAt(s, Len(s))) THEN RStrip(SubSeq(s, 1, Len(s) - 1)) ELSE s

Strip(s) == RStrip(LStrip(s))

UpperOf == [c \in {CharAt(LowerLetters, i) : i \in 1..Len(LowerLetters)} |->
               CharAt(UpperLetters, CHOOSE i \in 1..Len(LowerLetters) : CharAt(LowerLetters, i) = c)]

RECURSIVE Upper(_)
Upper(s) ==
    IF Len(s) = 0 THEN ""
    ELSE (IF CharAt(s, 1) \in DOMAIN UpperOf THEN UpperOf[CharAt(s, 1)] ELSE CharAt(s, 1))
         \o Upper(SubSeq(s, 2, Len(s)))

StartsWith(s, prefix) == Len(s) >= Len(prefix) /\ SubSeq(s, 1, Len(prefix)) = prefix

EndsWith(s, suffix) ==
    Len(s) >= Len(suffix) /\ SubSeq(s, Len(s) - Len(suffix) + 1, Len(s)) = suffix

\* sub in s
Contains(s, sub) ==
    \E i \in 1..(Len(s) - Len(sub) + 1) : SubSeq(s, i, i + Len(sub) - 1) = sub

(***************************************************************************)
(* re.search(pattern, text) for the patterns of the program, over texts of *)
(* one line.  A pattern is its kind and its literal: "whole" is ^lit$,     *)
(* "prefix" is ^lit, "contains" is lit, and "to_question_mark" is          *)
(* lit.*\?$.  An alternation is the list of its alternatives.              *)
(***************************************************************************)
Pat(kind, lit) == [kind |-> kind, lit |-> lit]

ReSearch(pattern, text) ==
    CASE pattern.kind = "whole" -> text = pattern.lit
      [] pattern.kind = "prefix" -> StartsWith(text, pattern.lit)
      [] pattern.kind = "contains" -> Contains(text, pattern.lit)
      [] OTHER -> /\ EndsWith(text, "?")
                  /\ Contains(SubSeq(text, 1, Len(text) - 1), pattern.lit)

AnySearch(patterns, text) == \E i \in 1..Len(patterns) : ReSearch(patterns[i], text)

(***************************************************************************)
(* QuestionClassifier                                                      *)
(***************************************************************************)
CLASSIFICATION_CATEGORIES == {"PDF_CONTENT", "PDF_META", "GENERAL", "PERSONAL", "CONVERSATIONAL"}

CONFIDENCE_HIGH == 80    \* CONFIDENCE_THRESHOLDS["HIGH"]
CONFIDENCE_LOW == 40     \* CONFIDENCE_THRESHOLDS["LOW"]

conversational_patterns ==
    << Pat("whole", "hi"), Pat("prefix", "hi."), Pat("prefix", "hi!"), Pat("prefix", "hi "),
       Pat("prefix", "hello"), Pat("prefix", "hey"), Pat("prefix", "thanks"),
       Pat("prefix", "thank you"), Pat("prefix", "good morning"),
       Pat("prefix", "good afternoon"), Pat("prefix", "good evening"),
       Pat("contains", "what's up"), Pat("whole", "sup") >>

personal_patterns ==
    << Pat("prefix", "who are you"), Pat("prefix", "what are you"),
       Pat("prefix", "what can you do"), Pat("prefix", "tell me about yourself"),
       Pat("prefix", "what are your capabilities") >>

meta_patterns ==
    << Pat("contains", "pdf name"), Pat("contains", "document name"),
       Pat("contains", "file name"), Pat("contains", "how many pages"),
       Pat("contains", "pages count"), Pat("contains", "document info"),
       Pat("contains", "pdf info"), Pat("contains", "upload") >>

general_patterns ==
    << Pat("contains", "what's today"), Pat("contains", "what is today"),
       Pat("contains", "current date"), Pat("contains", "today's date"),
       Pat("contains", "what time"), Pat("contains", "current time"),
       Pat("contains", "explain"), Pat("contains", "define"), Pat("contains", "how does"),
       Pat("to_question_mark", "what is"), Pat("to_question_mark", "why"),
       Pat("to_question_mark", "how") >>

Classification(category, confidence, reasoning) ==
    [category |-> category, confidence |-> confidence, reasoning |-> reasoning]

\* _fallback_classify
\* a classifier that tries the general patterns before the other groups
FallbackClassifyGeneralFirst(question) ==
    LET ql == Strip(Lower(question))
    IN  IF AnySearch(general_patterns, ql)
        THEN Classification("GENERAL", 60, "Matched general knowledge patterns")
        ELSE IF AnySearch(conversational_patterns, ql)
        THEN Classification("CONVERSATIONAL", 80, "Matched conversational patterns")
        ELSE IF AnySearch(personal_patterns, ql)
        THEN Classification("PERSONAL", 80, "Matched personal/system inquiry patterns")
        ELSE IF AnySearch(meta_patterns, ql)
        THEN Classification("PDF_META", 70, "Matched document metadata patterns")
        ELSE IF Len(ql) > 10 /\ Contains(question, "?")
        THEN Classification("PDF_CONTENT", 50, "Default classification for substantial questions")
        ELSE Classification("CONVERSATIONAL", 30, "Default fallback classification")

FallbackClassify(question) ==
    LET ql == Strip(Lower(question))
    IN  IF AnySearch(conversational_patterns, ql)
        THEN Classification("CONVERSATIONAL", 80, "Matched conversational patterns")
        ELSE IF AnySearch(personal_patterns, ql)
        THEN Classification("PERSONAL", 80, "Matched personal/system inquiry patterns")
        ELSE IF AnySearch(meta_patterns, ql)
        THEN Classification("PDF_META", 70, "Matched document metadata patterns")
        ELSE IF AnySearch(general_patterns, ql)
        THEN Classification("GENERAL", 60, "Matched general knowledge patterns")
        ELSE IF Len(ql) > 10 /\ Contains(question, "?")
        THEN Classification("PDF_CONTENT", 50, "Default classification for substantial questions")
        ELSE Classification("CONVERSATIONAL", 30, "Default fallback classification")

(***************************************************************************)
(* What llm.invoke gives the classifier: it raises, its content holds no   *)
(* JSON object, or it holds one.  The object may name any category; its    *)
(* confidence is a number, in hundredths, or something else (numeric       *)
(* FALSE); its "reasoning" key may be missing (NoReasoning).               *)
(***************************************************************************)
NoReasoning == "<no reasoning key>"

LlmRaises == [kind |-> "raises"]
LlmNoJson == [kind |-> "no_json"]

LlmJson(category, numeric, confidence, reasoning) ==
    [kind |-> "json", category |-> category, numeric |-> numeric,
     confidence |-> confidence, reasoning |-> reasoning]

\* classify_question; no llm when has_llm is FALSE
ClassifyQuestion(has_llm, reply, question) ==
    IF ~has_llm THEN FallbackClassify(question)
    ELSE IF reply.kind = "json"
    THEN IF /\ reply.category \in CLASSIFICATION_CATEGORIES
            /\ reply.numeric
            /\ 0 <= reply.confidence /\ reply.confidence <= 100
         THEN Classification(reply.category, reply.confidence, reply.reasoning)
         ELSE FallbackClassify(question)
    ELSE FallbackClassify(question)

\* Direct calls of classify_question, with and without a language model.
ClassifierReplies ==
    {LlmRaises, LlmNoJson} \cup
    {LlmJson(category, numeric, confidence, reasoning) :
        category \in CLASSIFICATION_CATEGORIES \cup {"SUMMARY"}, numeric \in BOOLEAN,
        confidence \in {-10, 0, 50, 100, 150},
        reasoning \in {"about the content", NoReasoning}}

ClassifierQuestions ==
    {"Hello!", "Who are you?", "What is AI?", "Summarize chapter two?", "ok",
     "Hello, explain the upload", "Who are you? Define it", "How many pages? Explain",
     "   huh?      "}

classify_question ==
    /\ out.op # "classify"    \* a call leaves no state: one call shows them all
    /\ \E has_llm \in BOOLEAN, reply \in ClassifierReplies, question \in ClassifierQuestions :
        out' = [op |-> "classify", has_llm |-> has_llm, reply |-> reply, question |-> question,
                result |-> ClassifyQuestion(has_llm, reply, question)]
    /\ UNCHANGED << envVars, db, storeVars, collVars, RESPONSE_CACHE, CONVERSATION_MEMORY, disk,
                    now, recorded, steps >>

ClassifierInit ==
    /\ project_id = FALSE
    /\ USE_FAKE = FALSE
    /\ InitGlobals
    /\ RESPONSE_CACHE = << >>
    /\ now = 0

SpecClassifier == ClassifierInit /\ [][classify_question]_vars

(***************************************************************************)
(* ResponseCache                                                           *)
(***************************************************************************)
CACHE_TTL == 3600
CacheCeiling == 1000     \* if len(RESPONSE_CACHE) > 1000
EvictCount == 200        \* sorted_cache[:200]

\* {}: what get_cached_response returns for a miss
Miss == [response_type |-> "none"]

\* a cache key that drops question.lower()
GenerateCacheKeyCaseSensitive(question, doc_id, classification) ==
    Strip(question) \o "_" \o doc_id \o "_" \o classification.category

\* _generate_cache_key: md5 of f"{question.lower().strip()}_{doc_id}_{category}"
GenerateCacheKey(question, doc_id, classification) ==
    Strip(Lower(question)) \o "_" \o doc_id \o "_" \o classification.category

\* the position of cache_key in the dict, 0 when it is no key of it
CachePos(cache, cache_key) ==
    IF \E i \in 1..Len(cache) : cache[i].key = cache_key
    THEN CHOOSE i \in 1..Len(cache) : cache[i].key = cache_key
    ELSE 0

\* del cache[cache_key]
CacheDel(cache, pos) == [i \in 1..(Len(cache) - 1) |-> IF i < pos THEN cache[i] ELSE cache[i + 1]]

\* cache[cache_key] = entry: a key the dict has keeps its place
CacheSet(cache, entry) ==
    LET pos == CachePos(cache, entry.key)
    IN  IF pos = 0 THEN Append(cache, entry) ELSE [cache EXCEPT ![pos] = entry]

\* a freshness test that still accepts an entry whose age is the TTL
FreshInclusive(entry, t) == t - entry.timestamp <= CACHE_TTL

\* time.time() - cache_time < CACHE_TTL
Fresh(entry, t) == t - entry.timestamp < CACHE_TTL

\* get_cached_response: the value returned and the cache it leaves
GetCachedResponse(cache, question, doc_id, classification) ==
    LET pos == CachePos(cache, GenerateCacheKey(question, doc_id, classification))
    IN  IF pos = 0 THEN [response |-> Miss, cache |-> cache]
        ELSE IF Fresh(cache[pos], now) THEN [response |-> cache[pos].response, cache |-> cache]
        ELSE [response |-> Miss, cache |-> CacheDel(cache, pos)]

\* an eviction that drops the first entries of the dict, whatever their age
EvictFirstInserted(cache) ==
    IF Len(cache) > CacheCeiling THEN SubSeq(cache, EvictCount + 1, Len(cache)) ELSE cache

\* sorted(RESPONSE_CACHE.items(), key=lambda x: x[1]["timestamp"]): the sort is
\* stable, so items of one timestamp stay in dict order
SortedCache(cache) ==
    SortSeq([i \in 1..Len(cache) |-> [pos |-> i, timestamp |-> cache[i].timestamp]],
            LAMBDA a, b : \/ a.timestamp < b.timestamp
                          \/ (a.timestamp = b.timestamp /\ a.pos < b.pos))

\* the eviction of cache_response
EvictOldest(cache) ==
    IF Len(cache) > CacheCeiling
    THEN LET sorted_cache == SortedCache(cache)
             old          == {sorted_cache[i].pos : i \in 1..EvictCount}
             kept         == SelectSeq([i \in 1..Len(cache) |-> i], LAMBDA i : i \notin old)
         IN  [n \in 1..Len(kept) |-> cache[kept[n]]]
    ELSE cache

\* cache_response: the cache it leaves
CacheResponse(cache, question, doc_id, classification, response) ==
    EvictOldest(CacheSet(cache, [key |-> GenerateCacheKey(question, doc_id, classification),
                                 response |-> response, timestamp |-> now]))

(***************************************************************************)
(* Calls of ResponseCache and the passing of time.  A question is given    *)
(* with its base: the lowercased, trimmed text it stands for.              *)
(***************************************************************************)
CacheForms ==
    {[base |-> "hi", text |-> "hi"], [base |-> "hi", text |-> "  Hi "],
     [base |-> "what is ai?", text |-> "What is AI?\n"]}

CacheTargets == {"d1"}

CacheCategories == {"GENERAL", "PDF_CONTENT"}

TickSteps == {1, CACHE_TTL - 1, CACHE_TTL}

CachePut(forms, targets, categories) ==
    /\ steps["put"] < MaxPuts
    /\ steps' = Bump("put")
    /\ \E form \in forms, doc_id \in targets, category \in categories :
        LET response == [response_type |-> "general",
                         answer |-> "answer " \o ToString(steps["put"] + 1)]
        IN  /\ RESPONSE_CACHE' = CacheResponse(RESPONSE_CACHE, form.text, doc_id,
                                               [category |-> category], response)
            /\ out' = [op |-> "put", base |-> form.base, question |-> form.text,
                       doc_id |-> doc_id, category |-> category, response |-> response]
    /\ UNCHANGED << envVars, db, storeVars, collVars, CONVERSATION_MEMORY, disk, now, recorded >>

CacheGet(forms, targets, categories) ==
    /\ steps["get"] < MaxGets
    /\ steps' = Bump("get")
    /\ \E form \in forms, doc_id \in targets, category \in categories :
        LET got == GetCachedResponse(RESPONSE_CACHE, form.text, doc_id, [category |-> category])
        IN  /\ RESPONSE_CACHE' = got.cache
            /\ out' = [op |-> "get", base |-> form.base, question |-> form.text,
                       doc_id |-> doc_id, category |-> category, response |-> got.response]
    /\ UNCHANGED << envVars, db, storeVars, collVars, CONVERSATION_MEMORY, disk, now, recorded >>

cache_response == CachePut(CacheForms, CacheTargets, CacheCategories)

get_cached_response == CacheGet(CacheForms, CacheTargets, CacheCategories)

\* time passes between two calls
Advance(seconds) ==
    /\ steps["tick"] < MaxTicks
    /\ steps' = Bump("tick")
    /\ \E dt \in seconds : now' = now + dt
    /\ out' = [op |-> "tick"]
    /\ UNCHANGED << envVars, db, storeVars, collVars, RESPONSE_CACHE, CONVERSATION_MEMORY,
                    disk, recorded >>

Tick == Advance(TickSteps)

\* POST /cache/clear
clear_cache ==
    /\ steps["clear"] < MaxClears
    /\ steps' = Bump("clear")
    /\ RESPONSE_CACHE' = << >>
    /\ out' = [op |-> "clear", cleared_entries |-> Len(RESPONSE_CACHE)]
    /\ UNCHANGED << envVars, db, storeVars, collVars, CONVERSATION_MEMORY, disk, now, recorded >>

\* a process with no embedding service configured
CacheInit ==
    /\ project_id = FALSE
    /\ USE_FAKE = FALSE
    /\ InitGlobals
    /\ RESPONSE_CACHE = << >>
    /\ now = 0

CacheNext == cache_response \/ get_cached_response \/ clear_cache \/ Tick

SpecCache == CacheInit /\ [][CacheNext]_vars

(***************************************************************************)
(* A cache that earlier requests have filled to the ceiling or just below  *)
(* it.  The entries are those of the questions q1, q2, ... about d1; their *)
(* timestamps rise with the dict order, are all the same, fall with it     *)
(* (keys rewritten in reverse order), or rise but for the first keys,      *)
(* rewritten last.                                                         *)
(***************************************************************************)
StampPatterns == {"rising", "level", "falling", "refreshed"}

Stamp(pattern, i, n) ==
    CASE pattern = "rising" -> i
      [] pattern = "level" -> 1
      [] pattern = "falling" -> n + 1 - i
      [] OTHER -> IF i <= EvictCount + 100 THEN n + i ELSE i

FilledCache(pattern, n) ==
    [i \in 1..n |-> [key |-> "q" \o ToString(i) \o "_d1_GENERAL",
                     response |-> [response_type |-> "general", answer |-> "stored"],
                     timestamp |-> Stamp(pattern, i, n)]]

FullCacheInit ==
    /\ project_id = FALSE
    /\ USE_FAKE = FALSE
    /\ InitGlobals
    /\ now = 2 * CacheCeiling
    /\ \E pattern \in StampPatterns, n \in {CacheCeiling - 1, CacheCeiling} :
           RESPONSE_CACHE = FilledCache(pattern, n)

FullCacheForms ==
    {[base |-> "q1", text |-> "Q1 "], [base |-> "q" \o ToString(CacheCeiling), text |-> "q" \o ToString(CacheCeiling)],
     [base |-> "new", text |-> "new"], [base |-> "newer", text |-> " Newer"]}

FullCacheNext == CachePut(FullCacheForms, {"d1"}, {"GENERAL"})

SpecCacheFull == FullCacheInit /\ [][FullCacheNext]_vars

(***************************************************************************)
(* ConversationManager                                                     *)
(***************************************************************************)
HistoryLimit == 10       \* if len(CONVERSATION_MEMORY[session_id]) > 10
PreviewLength == 100     \* response.get("answer", "")[:100]

\* a trim that keeps the first turns of the list and drops the new ones
FirstTurns(history) ==
    IF Len(history) > HistoryLimit THEN SubSeq(history, 1, HistoryLimit) ELSE history

\* CONVERSATION_MEMORY[session_id][-10:] when the list is longer than 10
LastTurns(history) ==
    IF Len(history) > HistoryLimit
    THEN SubSeq(history, Len(history) - HistoryLimit + 1, Len(history))
    ELSE history

\* the response_preview of a turn
ResponsePreview(answer) ==
    IF Len(answer) > PreviewLength THEN SubSeq(answer, 1, PreviewLength) \o "..." ELSE answer

\* the turn add_to_history builds
Turn(question, response, classification) ==
    [timestamp |-> now, question |-> question, response_type |-> response.response_type,
     classification |-> classification, response_preview |-> ResponsePreview(response.answer)]

HistoryOf(memory, session_id) ==
    IF session_id \in DOMAIN memory THEN memory[session_id] ELSE << >>

\* add_to_history: the CONVERSATION_MEMORY it leaves
AddToHistory(memory, session_id, question, response, classification) ==
    DictPut(memory, session_id,
            LastTurns(Append(HistoryOf(memory, session_id),
                             Turn(question, response, classification))))

\* the log of the turns handed to add_to_history, per session
Record(log, session_id, question, response, classification) ==
    DictPut(log, session_id,
            Append(HistoryOf(log, session_id), Turn(question, response, classification)))

follow_up_patterns ==
    << Pat("prefix", "and"), Pat("prefix", "also"), Pat("prefix", "what about"),
       Pat("prefix", "how about"), Pat("contains", "more"), Pat("contains", "else"),
       Pat("contains", "other"), Pat("contains", "elaborate"), Pat("contains", "expand"),
       Pat("contains", "explain"), Pat("contains", "what else"),
       Pat("contains", "anything else"), Pat("prefix", "that"), Pat("prefix", "this"),
       Pat("prefix", "it"), Pat("contains", "further"), Pat("contains", "additional") >>

NoFollowUp ==
    [is_follow_up |-> FALSE, previous_type |-> "", previous_question |-> "", context_turns |-> 0]

\* detect_follow_up
DetectFollowUp(memory, question, session_id) ==
    LET history == HistoryOf(memory, session_id)
    IN  IF Len(history) = 0 THEN NoFollowUp
        ELSE IF AnySearch(follow_up_patterns, Strip(Lower(question)))
        THEN [is_follow_up |-> TRUE,
              previous_type |-> history[Len(history)].response_type,
              previous_question |-> history[Len(history)].question,
              context_turns |-> Len(history)]
        ELSE NoFollowUp

(***************************************************************************)
(* AdvancedRouter.should_use_hybrid_response                               *)
(***************************************************************************)
SingleHandler(category) ==
    [use_hybrid |-> FALSE, primary_handler |-> category, handlers |-> << >>]

Hybrid(handlers) == [use_hybrid |-> TRUE, primary_handler |-> "", handlers |-> handlers]

\* a router that asks for every trigger phrase where the code asks for one
AllIn(triggers, text) == \A t \in triggers : Contains(text, t)

AnyIn(triggers, text) == \E t \in triggers : Contains(text, t)

\* a router that looks at the follow-up before it looks at the confidence
ShouldUseHybridFollowUpFirst(classification, question, follow_up_info) ==
    IF /\ follow_up_info.is_follow_up
       /\ classification.category # Upper(follow_up_info.previous_type)
    THEN Hybrid(<< classification.category, Upper(follow_up_info.previous_type) >>)
    ELSE SingleHandler(classification.category)

ShouldUseHybridResponse(classification, question, follow_up_info) ==
    LET confidence     == classification.confidence
        category       == classification.category
        question_lower == Lower(question)
        prev_type      == follow_up_info.previous_type
    IN  IF confidence >= CONFIDENCE_HIGH THEN SingleHandler(category)
        ELSE IF follow_up_info.is_follow_up /\ category # Upper(prev_type)
        THEN Hybrid(<< category, Upper(prev_type) >>)
        ELSE IF /\ CONFIDENCE_LOW <= confidence
                /\ category = "PDF_CONTENT"
                /\ AnyIn({"explain", "what is", "define", "how does"}, question_lower)
        THEN Hybrid(<< "PDF_CONTENT", "GENERAL" >>)
        ELSE IF /\ CONFIDENCE_LOW <= confidence
                /\ category = "PDF_META"
                /\ AnyIn({"about", "topic", "discusses", "covers"}, question_lower)
        THEN Hybrid(<< "PDF_META", "PDF_CONTENT" >>)
        ELSE SingleHandler(category)

\* Direct calls of should_use_hybrid_response: any classification, a
\* question with or without trigger words, any follow-up info.
RouterConfidences == {0, 39, 40, 79, 80, 100}

RouterClassifications ==
    {Classification(category, confidence, "reasoning") :
        category \in CLASSIFICATION_CATEGORIES, confidence \in RouterConfidences}

RouterQuestions == {"Explain the topic", "Tell me more", "Hello"}

RouterFollowUps ==
    {NoFollowUp} \cup
    {[is_follow_up |-> TRUE, previous_type |-> previous_type,
      previous_question |-> "previous question", context_turns |-> 1]
        : previous_type \in {"general", "pdf_content", "personal", "conversational"}}

should_use_hybrid_response ==
    /\ \E classification \in RouterClassifications, question \in RouterQuestions,
          follow_up_info \in RouterFollowUps :
        out' = [op |-> "route", classification |-> classification, question |-> question,
                follow_up_info |-> follow_up_info,
                decision |-> ShouldUseHybridResponse(classification, question, follow_up_info)]
    /\ UNCHANGED << envVars, db, storeVars, collVars, RESPONSE_CACHE, CONVERSATION_MEMORY, disk,
                    now, recorded, steps >>

RouterInit ==
    /\ project_id = FALSE
    /\ USE_FAKE = FALSE
    /\ InitGlobals
    /\ RESPONSE_CACHE = << >>
    /\ now = 0

SpecRouter == RouterInit /\ [][should_use_hybrid_response]_vars

(***************************************************************************)
(* ResponseHandlers.  A response is its response_type, its answer and its  *)
(* sources (no sources key: the empty list).  An answer is the text the    *)
(* language model wrote (LlmAnswer) or the name of the handler's own text. *)
(* has_llm: the handler has a language model; llm_ok: its invoke returns.  *)
(***************************************************************************)
LlmAnswer == "text of the language model"

Response(response_type, answer, sources) ==
    [response_type |-> response_type, answer |-> answer, sources |-> sources]

Generated(has_llm, llm_ok, on_failure, without_llm) ==
    IF has_llm THEN (IF llm_ok THEN LlmAnswer ELSE on_failure) ELSE without_llm

\* ContextManager.get_document_context
DocumentContext(doc_id) ==
    IF doc_id \notin DOMAIN DOC_METADATA
    THEN [empty |-> TRUE, pages_count |-> 0, chunks_count |-> 0]
    ELSE [empty |-> FALSE, pages_count |-> DOC_METADATA[doc_id].pages_count,
          chunks_count |-> Len(HistoryOf(DOC_TEXT, doc_id))]

\* the doc_ctx chat builds for a collection: it has no pages_count
CollectionContext(collection_id) ==
    [empty |-> FALSE, pages_count |-> 0, chunks_count |-> 0]

HandleConversational(has_llm, llm_ok) ==
    Response("conversational",
             Generated(has_llm, llm_ok, "Hello! I'm DocSpotlight, ready to help",
                       "Hi! I'm DocSpotlight. How can I help"), << >>)

HandlePersonal(has_llm, llm_ok) ==
    Response("personal",
             Generated(has_llm, llm_ok, "I'm DocSpotlight, specialized in PDF analysis",
                       "I'm DocSpotlight, an AI assistant that can help you"), << >>)

HandlePdfMeta(question, has_llm, llm_ok, doc_ctx) ==
    LET ql == Strip(Lower(question))
    IN  IF AnyIn({"pdf name", "document name", "file name"}, ql)
        THEN Response("pdf_meta_filename", "The current document is: filename", << >>)
        ELSE IF AnyIn({"pages", "page count", "how many pages"}, ql)
        THEN Response("pdf_meta_pages",
                      "pages " \o ToString(doc_ctx.pages_count) \o " chunks "
                          \o ToString(doc_ctx.chunks_count), << >>)
        ELSE IF AnyIn({"upload", "when", "time"}, ql)
        THEN Response("pdf_meta_upload", "Document uploaded: upload_time", << >>)
        ELSE Response("pdf_meta_general",
                      IF has_llm /\ ~doc_ctx.empty
                      THEN (IF llm_ok THEN LlmAnswer
                            ELSE "I can provide information about your uploaded document")
                      ELSE "I can help you with document information", << >>)

HandleGeneral(question, has_llm, llm_ok) ==
    Response("general",
             Generated(has_llm, llm_ok, "I'm currently having trouble accessing my knowledge base",
                       IF AnyIn({"today", "date", "current date"}, Lower(question))
                       THEN "Today is current_date"
                       ELSE "I can help with general questions when my language model is available"),
             << >>)

(***************************************************************************)
(* The handlers that search.  What a handler call comes to is an outcome:  *)
(* it raises, it returns None, or it returns a response.                   *)
(* The nearest neighbours depend on the question's vector, so a handler    *)
(* has a set of outcomes, one per ranking.  vertex_ok: the semantic        *)
(* embedding service answers, for the length of the request.               *)
(***************************************************************************)
Raises == [kind |-> "raises"]
ReturnsNone == [kind |-> "none"]

Returns(response) == [kind |-> "response", response |-> response]

\* the embedder the question's vector comes from
QueryEmbedder(vertex_ok) == IF USE_FAKE \/ ~vertex_ok THEN "fallback" ELSE "vertex"

\* a comprehension that keeps every position index.search returned
RetrievedWithoutRangeTest(chunks, indices) ==
    [n \in 1..Len(indices) |-> PyIndex(chunks, indices[n])]

\* [chunks[i] for i in indices[0] if 0 <= i < len(chunks)]
Retrieved(chunks, indices) ==
    LET hits == SelectSeq(indices, LAMBDA i : 0 <= i /\ i < Len(chunks))
    IN  [n \in 1..Len(hits) |-> chunks[hits[n] + 1]]

PdfContentResponse(retrieved, has_llm, llm_ok) ==
    IF Len(retrieved) = 0
    THEN Response("pdf_content_not_found", "I couldn't find relevant information", << >>)
    ELSE IF ~has_llm
    THEN Response("pdf_content_error", "I found relevant content but need the language model",
                  retrieved)
    ELSE Response("pdf_content",
                  IF llm_ok THEN LlmAnswer ELSE "I found relevant content but encountered an error",
                  retrieved)

\* handle_pdf_content with what index.search returned to it: DOC_TEXT[doc_id]
\* and DOC_INDEX[doc_id] raise KeyError for an id they lack, and index.search
\* raises for a vector of another dimension than the index's
PdfContentCalls(doc_id, has_llm, llm_ok, vertex_ok) ==
    IF doc_id \notin DOMAIN DOC_TEXT \/ doc_id \notin DOMAIN DOC_INDEX
    THEN {[indices |-> << >>, outcome |-> Raises]}
    ELSE IF QueryEmbedder(vertex_ok) # DOC_INDEX[doc_id].embedder
    THEN {[indices |-> << >>, outcome |-> Raises]}
    ELSE {[indices |-> indices,
           outcome |-> Returns(PdfContentResponse(Retrieved(DOC_TEXT[doc_id], indices),
                                                  has_llm, llm_ok))]
            : indices \in FaissSearch(DOC_INDEX[doc_id], 3)}

\* handle_pdf_content
HandlePdfContent(doc_id, has_llm, llm_ok, vertex_ok) ==
    {c.outcome : c \in PdfContentCalls(doc_id, has_llm, llm_ok, vertex_ok)}

\* Direct calls of handle_pdf_content for a stored document.
handle_pdf_content ==
    /\ out.op # "pdf_content"    \* a call leaves no state: one call shows them all
    /\ \E doc_id \in DOMAIN DOC_TEXT, has_llm \in BOOLEAN, llm_ok \in BOOLEAN,
          vertex_ok \in (IF project_id /\ ~USE_FAKE THEN BOOLEAN ELSE {FALSE}) :
       \E c \in PdfContentCalls(doc_id, has_llm, llm_ok, vertex_ok) :
           out' = [op |-> "pdf_content", doc_id |-> doc_id, has_llm |-> has_llm,
                   vertex_ok |-> vertex_ok, indices |-> c.indices, result |-> c.outcome]
    /\ UNCHANGED << envVars, db, storeVars, collVars, RESPONSE_CACHE, CONVERSATION_MEMORY, disk,
                    now, recorded, steps >>

\* the chunks of the hits of search_across_documents
HitChunks(results) == [n \in 1..Len(results) |-> results[n].chunk]

\* the body of the first except clause of handle_multi_document_content: the
\* search with the fallback embedder's vector.  What it raises leaves the
\* handler: the second except clause guards the try block only.
MultiDocumentSearch(collection_id, has_llm, llm_ok) ==
    IF CROSS_DOC_INDEX[collection_id].embedder # "fallback" THEN {Raises}
    ELSE {LET results == SearchAcrossDocuments(collection_id, indices)
          IN  IF Len(results) = 0
              THEN Returns(Response("multi_doc_not_found",
                                    "I couldn't find relevant information", << >>))
              ELSE IF ~has_llm
              THEN Returns(Response("multi_doc_error",
                                    "Found relevant content but need language model",
                                    HitChunks(results)))
              ELSE Returns(Response("multi_document_content",
                                    IF llm_ok THEN LlmAnswer
                                    ELSE "I found relevant content but encountered an error",
                                    HitChunks(results)))
          : indices \in FaissSearch(CROSS_DOC_INDEX[collection_id], 5)}

\* the for loop of the branch for a collection without combined index, over
\* doc_ids: the lists of per-document results it can collect
RECURSIVE DocumentResults(_, _, _, _)
DocumentResults(doc_ids, has_llm, llm_ok, vertex_ok) ==
    IF Len(doc_ids) = 0 THEN {<< >>}
    ELSE LET doc_id == Head(doc_ids)
             rest   == DocumentResults(Tail(doc_ids), has_llm, llm_ok, vertex_ok)
         IN  IF doc_id \in DOMAIN DOC_TEXT /\ doc_id \in DOMAIN DOC_INDEX
             THEN UNION {IF o.kind = "response" /\ Len(o.response.sources) > 0
                         THEN {<< [doc_id |-> doc_id, answer |-> o.response.answer,
                                   sources |-> o.response.sources] >> \o r : r \in rest}
                         ELSE rest
                         : o \in HandlePdfContent(doc_id, has_llm, llm_ok, vertex_ok)}
             ELSE rest

RECURSIVE AllSources(_)
AllSources(results) ==
    IF Len(results) = 0 THEN << >> ELSE Head(results).sources \o AllSources(Tail(results))

\* handle_multi_document_content
HandleMultiDocumentContent(collection_id, has_llm, llm_ok, vertex_ok) ==
    IF collection_id \notin DOMAIN DOCUMENT_COLLECTIONS
    THEN {Returns(Response("collection_error", "Collection not found", << >>))}
    ELSE IF collection_id \in DOMAIN CROSS_DOC_INDEX
    THEN IF QueryEmbedder(vertex_ok) = "vertex" \/ USE_FAKE
         THEN {ReturnsNone}    \* the try block ends and no return follows it
         ELSE MultiDocumentSearch(collection_id, has_llm, llm_ok)
    ELSE {IF Len(all_results) = 0
          THEN Returns(Response("multi_doc_fallback_not_found",
                                "I couldn't find relevant information", << >>))
          ELSE IF has_llm
          THEN Returns(Response("multi_document_fallback",
                                IF llm_ok THEN LlmAnswer
                                ELSE "Found information but couldn't synthesize",
                                AllSources(all_results)))
          ELSE Returns(Response("multi_document_simple", "Found information in documents",
                                AllSources(all_results)))
          : all_results \in DocumentResults(SubSeq(DOCUMENT_COLLECTIONS[collection_id], 1,
                                   IF Len(DOCUMENT_COLLECTIONS[collection_id]) < 3
                                   THEN Len(DOCUMENT_COLLECTIONS[collection_id]) ELSE 3),
                               has_llm, llm_ok, vertex_ok)}

\* Direct calls of handle_multi_document_content for an existing collection.
handle_multi_document_content ==
    /\ out.op # "multi"    \* a call leaves no state: one call shows them all
    /\ \E collection_id \in DOMAIN DOCUMENT_COLLECTIONS, has_llm \in BOOLEAN, llm_ok \in BOOLEAN,
          vertex_ok \in (IF project_id /\ ~USE_FAKE THEN BOOLEAN ELSE {FALSE}) :
       \E o \in HandleMultiDocumentContent(collection_id, has_llm, llm_ok, vertex_ok) :
           out' = [op |-> "multi", collection_id |-> collection_id, has_llm |-> has_llm,
                   embedder |-> QueryEmbedder(vertex_ok), result |-> o]
    /\ UNCHANGED << envVars, db, storeVars, collVars, RESPONSE_CACHE, CONVERSATION_MEMORY, disk,
                    now, recorded, steps >>

(***************************************************************************)
(* AdvancedRouter.generate_hybrid_response                                 *)
(***************************************************************************)
\* the outcomes of the handler generate_hybrid_response calls for handler_type
\* ({}: it calls none and goes on to the next type)
HybridHandler(handler_type, question, doc_id, doc_ctx, has_llm, llm_ok, vertex_ok) ==
    CASE handler_type = "PDF_CONTENT" -> HandlePdfContent(doc_id, has_llm, llm_ok, vertex_ok)
      [] handler_type = "PDF_META" -> {Returns(HandlePdfMeta(question, has_llm, llm_ok, doc_ctx))}
      [] handler_type = "GENERAL" -> {Returns(HandleGeneral(question, has_llm, llm_ok))}
      [] handler_type = "PERSONAL" -> {Returns(HandlePersonal(has_llm, llm_ok))}
      [] OTHER -> {}

\* the for loop over handlers: the lists of responses it can collect
RECURSIVE HybridResponses(_, _, _, _, _, _, _)
HybridResponses(handlers, question, doc_id, doc_ctx, has_llm, llm_ok, vertex_ok) ==
    IF Len(handlers) = 0 THEN {<< >>}
    ELSE LET rest  == HybridResponses(Tail(handlers), question, doc_id, doc_ctx,
                                      has_llm, llm_ok, vertex_ok)
             calls == HybridHandler(Head(handlers), question, doc_id, doc_ctx,
                                    has_llm, llm_ok, vertex_ok)
         IN  IF calls = {} THEN rest
             ELSE UNION {IF o.kind = "response"
                         THEN {<< [type |-> Head(handlers), answer |-> o.response.answer,
                                   sources |-> o.response.sources] >> \o r : r \in rest}
                         ELSE rest
                         : o \in calls}

\* "**Type**: answer" of the responses whose answer is not empty
AnswerParts(responses) ==
    LET with_answer == SelectSeq(responses, LAMBDA r : r.answer # "")
    IN  [n \in 1..Len(with_answer) |-> with_answer[n].type \o ": " \o with_answer[n].answer]

\* _synthesize_hybrid_responses with a language model whose next `failures`
\* invokes raise: the call at recursion depth `depth`.  When llm.invoke raises,
\* the except clause calls the function again with the same arguments.  At
\* the interpreter's recursion limit the innermost call raises
\* RecursionError; it is raised inside the except clauses of all its
\* callers, so it leaves the function.
RECURSIVE SynthesisCalls(_, _, _)
SynthesisCalls(responses, failures, depth) ==
    IF depth > RecursionLimit
    THEN [outcome |-> Raises, invocations |-> depth - 1]
    ELSE IF failures = 0
    THEN [outcome |-> Returns(Response("hybrid_synthesized", LlmAnswer, AllSources(responses))),
          invocations |-> depth]
    ELSE SynthesisCalls(responses, failures - 1, depth + 1)

\* _synthesize_hybrid_responses: what it comes to and how often it invoked
\* the language model
Synthesize(responses, has_llm, failures) ==
    IF ~has_llm
    THEN [outcome |-> Returns(Response("hybrid_fallback",
                                       Join(AnswerParts(responses), "\n\n"),
                                       AllSources(responses))),
          invocations |-> 0]
    ELSE SynthesisCalls(responses, failures, 1)

\* a model that is down keeps raising
FailuresOf(llm_ok) == IF llm_ok THEN 0 ELSE RecursionLimit

SynthesizeHybridResponses(responses, has_llm, llm_ok) ==
    Synthesize(responses, has_llm, FailuresOf(llm_ok)).outcome

\* generate_hybrid_response with the responses it collected; llm_ok is the
\* model's state while the handlers run, failures its state afterwards
GenerateHybrid(handlers, question, doc_id, doc_ctx, has_llm, llm_ok, failures, vertex_ok) ==
    {IF Len(responses) = 0
     THEN [responses |-> responses, invocations |-> 0,
           outcome |-> Returns(Response("hybrid_error",
                                        "I encountered an error generating a hybrid response.",
                                        << >>))]
     ELSE [responses |-> responses,
           invocations |-> Synthesize(responses, has_llm, failures).invocations,
           outcome |-> Synthesize(responses, has_llm, failures).outcome]
     : responses \in HybridResponses(handlers, question, doc_id, doc_ctx,
                                     has_llm, llm_ok, vertex_ok)}

GenerateHybridResponse(handlers, question, doc_id, doc_ctx, has_llm, llm_ok, vertex_ok) ==
    {r.outcome : r \in GenerateHybrid(handlers, question, doc_id, doc_ctx, has_llm, llm_ok,
                                      FailuresOf(llm_ok), vertex_ok)}

\* Direct calls of generate_hybrid_response about the uploaded document d1
\* or the absent d2, with the handler lists the router gives and lists with
\* types generate_hybrid_response has no handler for.
HybridHandlerLists ==
    {<< "PDF_CONTENT", "GENERAL" >>, << "PDF_META", "PDF_CONTENT" >>,
     << "GENERAL", "PERSONAL" >>, << "PDF_CONTENT", "CONVERSATIONAL" >>,
     << "PDF_CONTENT" >>, << "CONVERSATIONAL", "PDF_CONTENT_ERROR" >>}

SynthesisFailures == (0..MaxFailures) \cup {RecursionLimit}

generate_hybrid_response ==
    /\ out.op # "hybrid"    \* a call leaves no state: one call shows them all
    /\ \E handlers \in HybridHandlerLists, doc_id \in {"d1", "d2"}, has_llm \in BOOLEAN,
          llm_ok \in BOOLEAN, failures \in SynthesisFailures, vertex_ok \in BOOLEAN :
       \E r \in GenerateHybrid(handlers, "Explain the topic", doc_id, DocumentContext(doc_id),
                               has_llm, llm_ok, failures, vertex_ok) :
           out' = [op |-> "hybrid", handlers |-> handlers, doc_id |-> doc_id,
                   has_llm |-> has_llm, failures |-> failures,
                   embedder |-> QueryEmbedder(vertex_ok), responses |-> r.responses,
                   invocations |-> r.invocations, result |-> r.outcome]
    /\ UNCHANGED << envVars, db, storeVars, collVars, RESPONSE_CACHE, CONVERSATION_MEMORY, disk,
                    now, recorded, steps >>

(***************************************************************************)
(* CitationTracker.get_enhanced_citations.  The preview of a metadata      *)
(* entry is the text of the chunk the entry was made for.                  *)
(***************************************************************************)
PreviewOf(doc_id, metadata) == doc_id \o ":" \o ToString(metadata.chunk_id + 1)

Citation(chunk, metadata_list, doc_id) ==
    LET matching == SelectSeq(metadata_list, LAMBDA m : StartsWith(chunk, PreviewOf(doc_id, m)))
    IN  IF Len(matching) > 0
        THEN [text |-> chunk, page |-> matching[1].page_number,
              position |-> matching[1].position, chunk_id |-> matching[1].chunk_id]
        ELSE [text |-> chunk, page |-> 1, position |-> "unknown", chunk_id |-> -1]

GetEnhancedCitations(doc_id, retrieved_chunks) ==
    IF doc_id \notin DOMAIN CHUNK_METADATA THEN << >>
    ELSE [n \in 1..Len(retrieved_chunks) |->
            Citation(retrieved_chunks[n], CHUNK_METADATA[doc_id], doc_id)]

(***************************************************************************)
(* Direct calls of ConversationManager.add_to_history.  The n-th call      *)
(* records the question "q<n>".                                            *)
(***************************************************************************)
SessionIds == {"s1", "s2"}

add_to_history ==
    /\ steps["record"] < MaxRecordings
    /\ steps' = Bump("record")
    /\ \E session_id \in SessionIds :
        LET n              == steps["record"] + 1
            question       == "q" \o ToString(n)
            response       == [response_type |-> "general", answer |-> "a" \o ToString(n)]
            classification == [category |-> "GENERAL", confidence |-> 60]
        IN  /\ CONVERSATION_MEMORY' = AddToHistory(CONVERSATION_MEMORY, session_id, question,
                                                   response, classification)
            /\ recorded' = Record(recorded, session_id, question, response, classification)
            /\ out' = [op |-> "record", session_id |-> session_id, question |-> question]
    /\ UNCHANGED << envVars, db, storeVars, collVars, RESPONSE_CACHE, disk, now >>

HistoryInit ==
    /\ project_id = FALSE
    /\ USE_FAKE = FALSE
    /\ InitGlobals
    /\ RESPONSE_CACHE = << >>
    /\ now = 0

SpecHistory == HistoryInit /\ [][add_to_history]_vars

(***************************************************************************)
(* POST /chat.  A request is its question, given with its base (the text   *)
(* lowercased and trimmed), doc_id and collection_id ("" for None),        *)
(* session_id ("" for an empty one) and enable_cache.  The language model  *)
(* of the request is llm: whether GOOGLE_API_KEY gave one, and whether its *)
(* invoke returns while the handlers run; reply is what it gives the       *)
(* classifier.                                                             *)
(***************************************************************************)
\* a caching rule that stores whatever the handlers return
StoresAnyResponse(enable_cache, response) == enable_cache

\* req.enable_cache and response.get("response_type") not in ["conversational", "personal"]
StoresResponse(enable_cache, response) ==
    enable_cache /\ response.response_type \notin {"conversational", "personal"}

\* the single handler of the else branch
PrimaryHandler(primary_handler, req, question, doc_ctx, llm, vertex_ok) ==
    CASE primary_handler = "CONVERSATIONAL" ->
            {Returns(HandleConversational(llm.has_llm, llm.llm_ok))}
      [] primary_handler = "PERSONAL" -> {Returns(HandlePersonal(llm.has_llm, llm.llm_ok))}
      [] primary_handler = "PDF_META" ->
            {Returns(HandlePdfMeta(question, llm.has_llm, llm.llm_ok, doc_ctx))}
      [] primary_handler = "GENERAL" -> {Returns(HandleGeneral(question, llm.has_llm, llm.llm_ok))}
      [] primary_handler = "PDF_CONTENT" ->
            IF req.collection_id # ""
            THEN HandleMultiDocumentContent(req.collection_id, llm.has_llm, llm.llm_ok, vertex_ok)
            ELSE HandlePdfContent(req.doc_id, llm.has_llm, llm.llm_ok, vertex_ok)
      [] OTHER -> {Returns(HandleGeneral(question, llm.has_llm, llm.llm_ok))}

\* the response after response.update(...)
ChatResponse(response, req, classification, session_id, follow_up_info, hybrid_decision, conversation_turn) ==
    [response_type |-> response.response_type,
     answer |-> response.answer,
     sources |-> response.sources,
     enhanced_citations |-> IF req.doc_id # "" /\ Len(response.sources) > 0
                            THEN GetEnhancedCitations(req.doc_id, response.sources) ELSE << >>,
     classification |-> classification,
     session_id |-> session_id,
     follow_up_detected |-> follow_up_info.is_follow_up,
     routing_decision |-> hybrid_decision,
     conversation_turn |-> conversation_turn,
     timestamp |-> now,
     doc_id |-> req.doc_id,
     collection_id |-> req.collection_id,
     cached |-> FALSE]

ChatOut(req, llm, status) ==
    [op |-> "chat", status |-> status, has_llm |-> llm.has_llm, doc_id |-> req.doc_id,
     collection_id |-> req.collection_id, base |-> req.form.base, question |-> req.form.text,
     target |-> IF req.doc_id # "" THEN req.doc_id ELSE req.collection_id,
     enable_cache |-> req.enable_cache, from_cache |-> FALSE, handled |-> FALSE,
     session_id |-> IF req.session_id # "" THEN req.session_id
                    ELSE IF req.doc_id # "" THEN req.doc_id ELSE req.collection_id,
     follow_up_info |-> NoFollowUp, response |-> Miss]

\* a validation that answers every refused request with 400
ChatRejectedAsBadRequest(req, llm, status) ==
    /\ out' = [op |-> "chat", status |-> 400, has_llm |-> llm.has_llm,
               doc_id |-> req.doc_id, collection_id |-> req.collection_id,
               question |-> req.form.text, from_cache |-> FALSE, handled |-> FALSE]
    /\ UNCHANGED << RESPONSE_CACHE, CONVERSATION_MEMORY, recorded >>

\* the request is refused before anything is read or written
ChatRejected(req, llm, status) ==
    /\ out' = [op |-> "chat", status |-> status, has_llm |-> llm.has_llm,
               doc_id |-> req.doc_id, collection_id |-> req.collection_id,
               question |-> req.form.text, from_cache |-> FALSE, handled |-> FALSE]
    /\ UNCHANGED << RESPONSE_CACHE, CONVERSATION_MEMORY, recorded >>

\* the request after handler outcome o: memory and log are CONVERSATION_MEMORY
\* and the log after the first add_to_history, cache is RESPONSE_CACHE as the
\* lookup left it
ChatRespond(req, llm, question, target, cache, classification, session_id, memory, log, follow_up_info, decision, o) ==
    IF o.kind # "response"
    THEN \* the handler raised, or response is None and response.update raises
         /\ out' = [ChatOut(req, llm, 500) EXCEPT !.handled = TRUE, !.follow_up_info = follow_up_info]
         /\ RESPONSE_CACHE' = cache
         /\ CONVERSATION_MEMORY' = memory
         /\ recorded' = log
    ELSE \E response \in {ChatResponse(o.response, req, classification, session_id,
                                        follow_up_info, decision,
                                        Len(HistoryOf(memory, session_id)))} :
         /\ RESPONSE_CACHE' =
               IF StoresResponse(req.enable_cache, response)
               THEN CacheResponse(cache, question, target, classification, response)
               ELSE cache
         /\ CONVERSATION_MEMORY' = AddToHistory(memory, session_id, question,
                                                response, classification)
         /\ recorded' = Record(log, session_id, question, response, classification)
         /\ out' = [ChatOut(req, llm, 200) EXCEPT !.handled = TRUE, !.follow_up_info = follow_up_info,
                                                  !.response = response]

\* the request from the classification on
ChatAnswer(req, question, target, doc_ctx, cache, llm, reply, vertex_ok) ==
    \E classification \in {ClassifyQuestion(llm.has_llm, reply, question)},
       session_id \in {IF req.session_id # "" THEN req.session_id ELSE target} :
    IF classification.reasoning = NoReasoning
    THEN \* classification["reasoning"] raises KeyError
         /\ out' = ChatOut(req, llm, 500)
         /\ RESPONSE_CACHE' = cache
         /\ UNCHANGED << CONVERSATION_MEMORY, recorded >>
    ELSE \E preliminary \in {[response_type |-> classification.category, answer |-> ""]} :
         \E memory \in {AddToHistory(CONVERSATION_MEMORY, session_id, question,
                                      preliminary, classification)},
            log \in {Record(recorded, session_id, question, preliminary, classification)} :
         \E follow_up_info \in {DetectFollowUp(memory, question, session_id)} :
         \E decision \in {ShouldUseHybridResponse(classification, question, follow_up_info)} :
         \E o \in (IF decision.use_hybrid
                   THEN GenerateHybridResponse(decision.handlers, question, target,
                                               doc_ctx, llm.has_llm, llm.llm_ok, vertex_ok)
                   ELSE PrimaryHandler(decision.primary_handler, req, question, doc_ctx,
                                       llm, vertex_ok)) :
             ChatRespond(req, llm, question, target, cache, classification, session_id, memory,
                         log, follow_up_info, decision, o)

\* the handler, for one request
ChatRequest(req, llm, reply, vertex_ok) ==
    IF req.doc_id = "" /\ req.collection_id = "" THEN ChatRejected(req, llm, 400)
    ELSE IF req.doc_id # "" /\ req.doc_id \notin DOMAIN DOC_TEXT THEN ChatRejected(req, llm, 404)
    ELSE IF req.collection_id # "" /\ req.collection_id \notin DOMAIN DOCUMENT_COLLECTIONS
    THEN ChatRejected(req, llm, 404)
    ELSE \E question \in {Strip(req.form.text)},
            target \in {IF req.doc_id # "" THEN req.doc_id ELSE req.collection_id} :
         \E looked \in {IF req.enable_cache
                         THEN GetCachedResponse(RESPONSE_CACHE, question, target,
                                                [category |-> "CACHED"])
                         ELSE [response |-> Miss, cache |-> RESPONSE_CACHE]} :
             IF looked.response # Miss
             THEN /\ out' = [ChatOut(req, llm, 200) EXCEPT !.from_cache = TRUE,
                                                      !.response = looked.response]
                  /\ RESPONSE_CACHE' = looked.cache
                  /\ UNCHANGED << CONVERSATION_MEMORY, recorded >>
             ELSE ChatAnswer(req, question, target,
                             IF req.doc_id # "" THEN DocumentContext(req.doc_id)
                             ELSE CollectionContext(req.collection_id),
                             looked.cache, llm, reply, vertex_ok)

\* the language model of a request
Llm(has_llm, llm_ok, reply) == [has_llm |-> has_llm, llm_ok |-> llm_ok, reply |-> reply]

LlmNone == Llm(FALSE, FALSE, LlmRaises)

Chat(forms, doc_ids, collection_ids, session_ids, llms) ==
    /\ steps["chat"] < MaxChats
    /\ steps' = Bump("chat")
    /\ \E form \in forms, doc_id \in doc_ids, collection_id \in collection_ids,
          session_id \in session_ids, enable_cache \in BOOLEAN, llm \in llms :
       \E vertex_ok \in (IF project_id /\ ~USE_FAKE THEN BOOLEAN ELSE {FALSE}) :
           ChatRequest([form |-> form, doc_id |-> doc_id, collection_id |-> collection_id,
                        session_id |-> session_id, enable_cache |-> enable_cache],
                       llm, llm.reply, vertex_ok)
    /\ UNCHANGED << envVars, db, storeVars, collVars, disk, now >>

(***************************************************************************)
(* Chat requests about uploaded documents.                                 *)
(***************************************************************************)
ChatForms ==
    {[base |-> "what is ai?", text |-> "What is AI?"],
     [base |-> "what is ai?", text |-> "  what is ai? "],
     [base |-> "hello!", text |-> "Hello!"],
     [base |-> "who are you?", text |-> "Who are you?"],
     [base |-> "how many pages about it", text |-> "how many pages about it"],
     [base |-> "summarize chapter two?", text |-> "Summarize chapter two?"]}

\* no model; a model that works but whose classification reply is no JSON; a
\* working model sure of PDF_CONTENT; a model unsure of PDF_CONTENT whose
\* later calls raise
ChatLlms ==
    {LlmNone,
     Llm(TRUE, TRUE, LlmNoJson),
     Llm(TRUE, TRUE, LlmJson("PDF_CONTENT", TRUE, 90, "about the content")),
     Llm(TRUE, FALSE, LlmJson("PDF_CONTENT", TRUE, 50, "perhaps the content"))}

\* one-page files of two chunks
ChatFiles == {f \in PlainPdfFiles : Len(f.home) = 2}

chat == Chat(ChatForms, {"", "d1", "d2"}, {"", "c1"}, {"s1"}, ChatLlms)

\* the upload of the one document the requests are about
ChatUpload == DOC_TEXT = EmptyDict /\ Upload({"application/pdf"}, ChatFiles, {"saved"})

ChatNext == ChatUpload \/ chat

SpecChat == Init /\ [][ChatNext]_vars

\* Chat requests of one session about one document, some of them with the
\* words detect_follow_up looks for, classified by the rules.
SessionForms ==
    {[base |-> "what is ai?", text |-> "What is AI?"],
     [base |-> "hello!", text |-> "Hello!"],
     [base |-> "tell me more about that?", text |-> "Tell me more about that?"],
     [base |-> "and how many pages", text |-> "and how many pages"],
     [base |-> "explain what is ai", text |-> "Explain what is AI"]}

session_chat == Chat(SessionForms, {"d1"}, {""}, {"s1"}, {LlmNone})

SessionNext == ChatUpload \/ session_chat

SpecSession == Init /\ [][SessionNext]_vars

(***************************************************************************)
(* The whole program, and the parts of it the claims are checked under:    *)
(* each part keeps some of the operations, some with fewer inputs.         *)
(***************************************************************************)
\* ---------------------------------------------------------------------------
\* The persistence of the chats: save_user_chats and load_user_chats over the
\* tables of models.py
\* ---------------------------------------------------------------------------

\* the authenticated users, and the keys their clients choose for the chats
\* and the messages they save
Users == {"u1", "u2"}

ChatKeys == {"k1", "k2"}

MessageKeys == {"m1", "m2"}

\* the enumerations of a finite set: the orders in which rows without a
\* distinguishing sort key come back
Orderings(S) == {s \in [1..Cardinality(S) -> S] : \A i, j \in 1..Cardinality(S) : s[i] = s[j] => i = j}

\* the sequences without repetition over a set
Listings(S) == UNION {Orderings(T) : T \in SUBSET S}

\* a function restricted to the keys that pass a test of their rows
RowsWhere(table, Keep(_)) == [k \in {x \in DOMAIN table : Keep(table[x])} |-> table[k]]

\* the messages of one chat in a request
MessageLists(user_id) == {[i \in DOMAIN l |-> [id |-> l[i], content |-> "message of " \o user_id]] : l \in Listings(MessageKeys)}

\* the body of a save-chats request of one user: the history, the messages of
\* each chat and the documents of each chat
SaveRequests(user_id) ==
    {[history |-> h, messages |-> ms, chatDocuments |-> ds] :
        h \in {[i \in DOMAIN ks |-> [id |-> ks[i], title |-> "chat of " \o user_id]] :
                  ks \in Listings(ChatKeys) \cup {<< "k1", "k1" >>}},
        ms \in {[k1 |-> l, k2 |-> << >>] : l \in MessageLists(user_id)} \cup {[k1 |-> << >>, k2 |-> l] : l \in MessageLists(user_id)},
        ds \in {[k1 |-> << >>, k2 |-> << >>], [k1 |-> << [doc_id |-> "d1"] >>, k2 |-> << >>]}}

\* the rows a save-chats request adds to the session, in the order of its loops
ChatRows(user_id, chat_data) == [i \in DOMAIN chat_data.history |-> [chat_id |-> chat_data.history[i].id, user_id |-> user_id, title |-> chat_data.history[i].title]]

MessageRows(user_id, chat_data) ==
    UNION {{[message_id |-> chat_data.messages[chat_data.history[n].id][i].id,
             chat_id |-> chat_data.history[n].id, user_id |-> user_id,
             content |-> chat_data.messages[chat_data.history[n].id][i].content,
             order_index |-> i - 1, at |-> n] :
                i \in DOMAIN chat_data.messages[chat_data.history[n].id]} :
           n \in DOMAIN chat_data.history}

ChatDocumentRows(metadata, chat_data) ==
    UNION {{[chat_id |-> chat_data.history[n].id, doc_id |-> chat_data.chatDocuments[chat_data.history[n].id][i].doc_id] :
                i \in {j \in DOMAIN chat_data.chatDocuments[chat_data.history[n].id] :
                          chat_data.chatDocuments[chat_data.history[n].id][j].doc_id \in DOMAIN metadata}} :
           n \in DOMAIN chat_data.history}

\* the three delete statements of save_user_chats: the messages of the user,
\* the chat documents of the chats of the user, the chats of the user
ClearAllChats(tables, user_id) == [tables EXCEPT !.messages = EmptyDict, !.chat_documents = {}, !.chats = EmptyDict]

ClearUserChats(tables, user_id) ==
    [tables EXCEPT
        !.messages = RowsWhere(@, LAMBDA row : row.user_id # user_id),
        !.chat_documents = {cd \in @ : ~(cd.chat_id \in DOMAIN tables.chats /\ tables.chats[cd.chat_id].user_id = user_id)},
        !.chats = RowsWhere(@, LAMBDA row : row.user_id # user_id)]

\* the primary keys of models.py: chats.chat_id and messages.message_id are
\* unique over all users, so the flush of two added rows with one key, or of
\* a row whose key another user's row holds, raises
KeyConflict(cleared, user_id, chat_data) ==
    \/ \E i, j \in DOMAIN chat_data.history : i # j /\ chat_data.history[i].id = chat_data.history[j].id
    \/ \E i \in DOMAIN chat_data.history : chat_data.history[i].id \in DOMAIN cleared.chats
    \/ \E r, q \in MessageRows(user_id, chat_data) : r # q /\ r.message_id = q.message_id
    \/ \E r \in MessageRows(user_id, chat_data) : r.message_id \in DOMAIN cleared.messages

\* save_user_chats in one transaction: the deletes, the added rows, the
\* commit; an exception rolls the transaction back and answers 500
SaveUserChats(tables, metadata, user_id, chat_data) ==
    LET cleared == ClearUserChats(tables, user_id)
        chats == ChatRows(user_id, chat_data)
        messages == MessageRows(user_id, chat_data)
        links == ChatDocumentRows(metadata, chat_data)
    IN  IF KeyConflict(cleared, user_id, chat_data)
        THEN [db |-> tables, status |-> 500]
        ELSE [db |-> [chats |-> [k \in DOMAIN cleared.chats \cup {chats[i].chat_id : i \in DOMAIN chats} |->
                                    IF k \in DOMAIN cleared.chats THEN cleared.chats[k]
                                    ELSE [user_id |-> user_id, title |-> chats[CHOOSE i \in DOMAIN chats : chats[i].chat_id = k].title]],
                      messages |-> [k \in DOMAIN cleared.messages \cup {m.message_id : m \in messages} |->
                                    IF k \in DOMAIN cleared.messages THEN cleared.messages[k]
                                    ELSE LET m == CHOOSE r \in messages : r.message_id = k
                                         IN  [chat_id |-> m.chat_id, user_id |-> user_id,
                                              content |-> m.content, order_index |-> m.order_index]],
                      documents |-> [k \in DOMAIN cleared.documents \cup {l.doc_id : l \in links} |->
                                    IF k \in DOMAIN cleared.documents THEN cleared.documents[k]
                                    ELSE [user_id |-> user_id]],
                      chat_documents |-> cleared.chat_documents \cup links],
              status |-> 200]

\* the messages of a chat in the order of their order_index, as load sorts
\* the rows of the relationship
SortedMessages(tables, chat_id) ==
    {s \in Orderings({m \in DOMAIN tables.messages : tables.messages[m].chat_id = chat_id}) :
        \A i, j \in DOMAIN s : i < j => tables.messages[s[i]].order_index <= tables.messages[s[j]].order_index}

\* load_user_chats: the chats of the user, each with the messages and the
\* chat documents of its relationships; chats saved in one request share
\* their last_activity up to the clock's resolution, so their order is open
LoadUserChats(tables, metadata, user_id) ==
    LET ids == {c \in DOMAIN tables.chats : tables.chats[c].user_id = user_id}
        docs(c) == {cd.doc_id : cd \in {x \in tables.chat_documents : x.chat_id = c}}
    IN  {[history |-> [i \in DOMAIN h |-> [id |-> h[i], title |-> tables.chats[h[i]].title, hasPdf |-> docs(h[i]) # {}]],
          messages |-> [c \in ids |-> [i \in DOMAIN ms[c] |-> [id |-> ms[c][i], content |-> tables.messages[ms[c][i]].content]]],
          activeId |-> IF h = << >> THEN "None" ELSE h[1],
          chatDocuments |-> [c \in ids |-> [i \in DOMAIN ds[c] |->
                                [doc_id |-> ds[c][i],
                                 pages |-> IF ds[c][i] \in DOMAIN metadata THEN metadata[ds[c][i]].pages_count ELSE -1]]]] :
            h \in Orderings(ids),
            ms \in {f \in [ids -> Listings(DOMAIN tables.messages)] : \A c \in ids : f[c] \in SortedMessages(tables, c)},
            ds \in {f \in [ids -> Listings({cd.doc_id : cd \in tables.chat_documents})] : \A c \in ids : f[c] \in Orderings(docs(c))}}

save_user_chats ==
    /\ \E user_id \in Users : \E chat_data \in SaveRequests(user_id) :
         \E r \in {SaveUserChats(db, DOC_METADATA, user_id, chat_data)} :
            /\ db' = r.db
            /\ out' = [op |-> "save_chats", user_id |-> user_id, status |-> r.status]
    /\ UNCHANGED << envVars, storeVars, collVars, RESPONSE_CACHE, CONVERSATION_MEMORY, disk,
                    now, recorded, steps >>

load_user_chats ==
    /\ \E user_id \in Users :
         \E chats \in LoadUserChats(db, DOC_METADATA, user_id) :
            out' = [op |-> "load_chats", user_id |-> user_id, status |-> 200, chats |-> chats]
    /\ UNCHANGED << envVars, db, storeVars, collVars, RESPONSE_CACHE, CONVERSATION_MEMORY, disk,
                    now, recorded, steps >>

\* the upload of the one document the chats may hold
PersistenceUpload == DOC_TEXT = EmptyDict /\ Upload({"application/pdf"}, {CHOOSE f \in ChatFiles : TRUE}, {"saved"})

PersistenceNext == PersistenceUpload \/ save_user_chats \/ load_user_chats

SpecPersistence == Init /\ [][PersistenceNext]_vars

Next ==
    \/ upload_pdf
    \/ startup_event
    \/ create_collection
    \/ search_collection
    \/ cache_response
    \/ get_cached_response
    \/ clear_cache
    \/ add_to_history
    \/ chat
    \/ Tick
    \/ create_document_collection
    \/ should_use_hybrid_response
    \/ classify_question
    \/ handle_pdf_content
    \/ handle_multi_document_content
    \/ generate_hybrid_response
    \/ save_user_chats
    \/ load_user_chats

Spec == Init /\ [][Next]_vars

StoreNext == upload_pdf \/ startup_event

SpecStore == Init /\ [][StoreNext]_vars

CollectionsNext ==
    Upload({"application/pdf"}, PlainPdfFiles, {"saved"}) \/ create_collection \/ search_collection

SpecCollections == Init /\ [][CollectionsNext]_vars

ManagerNext ==
    \/ Upload({"application/pdf"}, PlainPdfFiles, {"saved"})
    \/ create_collection
    \/ create_document_collection

SpecManager == Init /\ [][ManagerNext]_vars

\* The handlers are coroutines of one event loop, which runs one of them at
\* a time and changes over only at an await.  The one await of upload_pdf
\* (file.read()) comes before its first write, and chat, create_collection
\* and the startup have none: what a request can see of another is the state
\* between two actions.
VisibilityChat ==
    Chat({[base |-> "hello!", text |-> "Hello!"]}, {"", "d1"},
         {"", CollectionId("c", << "d1", "d2" >>)}, {"s1"}, {LlmNone})

VisibilityNext ==
    \/ Upload({"application/pdf"}, PlainPdfFiles, {"saved"})
    \/ startup_event
    \/ create_collection
    \/ VisibilityChat

SpecVisibility == Init /\ [][VisibilityNext]_vars

MultiNext ==
    \/ Upload({"application/pdf"}, PlainPdfFiles, {"saved"})
    \/ create_collection
    \/ handle_multi_document_content

SpecMulti == Init /\ [][MultiNext]_vars

PdfContentUpload == DOC_TEXT = EmptyDict /\ Upload({"application/pdf"}, LongPdfFiles, {"saved"})

PdfContentNext == PdfContentUpload \/ handle_pdf_content

SpecPdfContent == Init /\ [][PdfContentNext]_vars

HybridNext == ChatUpload \/ generate_hybrid_response

SpecHybrid == Init /\ [][HybridNext]_vars

(***************************************************************************)
(* Claims about the document store.                                        *)
(***************************************************************************)
StoredDocs == DOMAIN DOC_TEXT

\* C1: every stored document has as many chunks as its index has vectors and
\* as its chunk-citation metadata has entries, also after add_chunk_metadata
\* fell back to its coarse estimate part-way through.
C1_ChunksVectorsCitationsAgree ==
    \A d \in StoredDocs :
        /\ d \in DOMAIN DOC_INDEX
        /\ d \in DOMAIN CHUNK_METADATA
        /\ Len(DOC_TEXT[d]) = ntotal(DOC_INDEX[d])
        /\ Len(DOC_TEXT[d]) = Len(CHUNK_METADATA[d])

\* C2: a document id is in all of the chunk store, the index store, the
\* metadata store and the chunk-citation store, or in none of them.
C2_AllStoresOrNone ==
    \A d \in DocIds :
        /\ (d \in DOMAIN DOC_TEXT) <=> (d \in DOMAIN DOC_INDEX)
        /\ (d \in DOMAIN DOC_TEXT) <=> (d \in DOMAIN DOC_METADATA)
        /\ (d \in DOMAIN DOC_TEXT) <=> (d \in DOMAIN CHUNK_METADATA)

(***************************************************************************)
(* Claims about collections.                                               *)
(***************************************************************************)
ChunkCount(doc_id) == IF doc_id \in DOMAIN DOC_TEXT THEN Len(DOC_TEXT[doc_id]) ELSE 0

\* the member whose block holds combined position p, and p's place in the block
RECURSIVE OwnerAt(_, _)
OwnerAt(members, p) ==
    IF p < ChunkCount(Head(members)) THEN [doc_id |-> Head(members), local |-> p]
    ELSE OwnerAt(Tail(members), p - ChunkCount(Head(members)))

RECURSIVE SumChunkCounts(_)
SumChunkCounts(members) ==
    IF Len(members) = 0 THEN 0 ELSE ChunkCount(Head(members)) + SumChunkCounts(Tail(members))

\* C3: a hit for combined position p carries the document the map gives for p
\* and that document's chunk at p minus the start of the document's block.
C3_HitsResolveToLocalChunk ==
    out.op = "search" =>
        \A i \in 1..Len(out.results) :
            LET hit == out.results[i]
                p   == hit.chunk_index
            IN  p >= 0 =>
                /\ hit.doc_id = CROSS_DOC_MAP[out.collection_id][p + 1]
                /\ hit.chunk = DOC_TEXT[hit.doc_id]
                                    [OwnerAt(DOCUMENT_COLLECTIONS[out.collection_id], p).local + 1]

\* C4: a search returns at most k hits and no more hits than the combined
\* index holds vectors; a padding position gives no hit; every hit is of a
\* member document.
C4_HitsBoundedAndAttributable ==
    (out.op = "search" /\ out.collection_id \in DOMAIN CROSS_DOC_INDEX) =>
        /\ Len(out.results) <= out.k
        /\ Len(out.results) <= ntotal(CROSS_DOC_INDEX[out.collection_id])
        /\ \A i \in 1..Len(out.results) :
            /\ out.results[i].chunk_index >= 0
            /\ \E m \in 1..Len(DOCUMENT_COLLECTIONS[out.collection_id]) :
                   DOCUMENT_COLLECTIONS[out.collection_id][m] = out.results[i].doc_id

\* C5: the combined index of a created collection holds as many vectors as
\* its members have chunks, the map is as long, and the map is the members'
\* blocks in the order the ids were supplied.
C5_CombinedIndexIsMemberBlocks ==
    /\ \A c \in DOMAIN CROSS_DOC_INDEX :
        LET members == DOCUMENT_COLLECTIONS[c]
        IN  /\ ntotal(CROSS_DOC_INDEX[c]) = SumChunkCounts(members)
            /\ Len(CROSS_DOC_MAP[c]) = ntotal(CROSS_DOC_INDEX[c])
            /\ \A p \in 0..(Len(CROSS_DOC_MAP[c]) - 1) :
                /\ CROSS_DOC_MAP[c][p + 1] = OwnerAt(members, p).doc_id
                /\ CROSS_DOC_INDEX[c].vecs[p + 1].text
                       = DOC_TEXT[OwnerAt(members, p).doc_id][OwnerAt(members, p).local + 1]
    /\ (out.op = "create_collection" /\ out.status = 200) =>
            out.collection_id \in DOMAIN CROSS_DOC_INDEX

\* a collection of two different documents has just been created
C5_Witness ==
    /\ out.op = "create_collection"
    /\ out.status = 200
    /\ Len(out.doc_ids) = 2
    /\ out.doc_ids[1] # out.doc_ids[2]
    /\ ChunkCount(out.doc_ids[1]) # ChunkCount(out.doc_ids[2])
    /\ out.collection_id \in DOMAIN CROSS_DOC_INDEX

(***************************************************************************)
(* Claims about the response cache.                                        *)
(***************************************************************************)
\* the digest input of the call out reports, from the question's base form
KeyOfCall(o) == o.base \o "_" \o o.doc_id \o "_" \o o.category

KeysOf(cache) == {cache[i].key : i \in 1..Len(cache)}

EntriesAt(cache, key) == {i \in 1..Len(cache) : cache[i].key = key}

PutStep == steps'["put"] = steps["put"] + 1

GetStep == steps'["get"] = steps["get"] + 1

\* C6: a put files the response, stamped with the time of the put, under the
\* key of (question without case and outer whitespace, target id, category);
\* a get whose key has an entry younger than CACHE_TTL returns that entry's
\* response and leaves the cache as it is; a get whose key has an entry of
\* age CACHE_TTL or more returns a miss and deletes that entry.
C6_GetAfterPutWithinTtl ==
    [][/\ PutStep =>
            \E i \in EntriesAt(RESPONSE_CACHE', KeyOfCall(out')) :
                /\ RESPONSE_CACHE'[i].response = out'.response
                /\ RESPONSE_CACHE'[i].timestamp = now
       /\ GetStep =>
            LET at == EntriesAt(RESPONSE_CACHE, KeyOfCall(out'))
            IN  /\ Cardinality(at) <= 1
                /\ \A i \in at :
                     IF now - RESPONSE_CACHE[i].timestamp < CACHE_TTL
                     THEN /\ out'.response = RESPONSE_CACHE[i].response
                          /\ RESPONSE_CACHE' = RESPONSE_CACHE
                     ELSE /\ out'.response = Miss
                          /\ KeyOfCall(out') \notin KeysOf(RESPONSE_CACHE')
                          /\ Len(RESPONSE_CACHE') = Len(RESPONSE_CACHE) - 1
                /\ at = {} => (out'.response = Miss /\ RESPONSE_CACHE' = RESPONSE_CACHE)
      ]_vars

\* a get in another letter case found its entry at the age of the TTL: this
\* get missed and the cache, which held that one entry, is empty
C6_Witness ==
    /\ out.op = "get"
    /\ out.question # out.base
    /\ out.response = Miss
    /\ steps["put"] = 1
    /\ steps["get"] = 1
    /\ steps["clear"] = 0
    /\ now = CACHE_TTL
    /\ RESPONSE_CACHE = << >>

\* C7: a put leaves at most CacheCeiling entries.  A put that raises the
\* count above the ceiling removes exactly EvictCount entries, none of them
\* younger than an entry it keeps, and keeps the entry it inserted; any other
\* put removes nothing.
C7_PutKeepsCeiling ==
    [][PutStep =>
        \E before \in {RESPONSE_CACHE}, after \in {RESPONSE_CACHE'}, key \in {KeyOfCall(out')} :
        \E keysBefore \in {KeysOf(before)}, keysAfter \in {KeysOf(after)} :
        \E removed \in {{i \in 1..Len(before) : before[i].key \notin keysAfter}},
           stampsKept \in {{after[j].timestamp : j \in 1..Len(after)}} :
            /\ Len(after) <= CacheCeiling
            /\ key \in keysAfter
            /\ Cardinality(keysAfter) = Len(after)
            /\ keysAfter \subseteq keysBefore \cup {key}
            /\ IF key \notin keysBefore /\ Len(before) + 1 > CacheCeiling
               THEN /\ Cardinality(removed) = EvictCount
                    /\ \A i \in removed : \A t \in stampsKept : before[i].timestamp <= t
               ELSE removed = {}
      ]_vars

\* a put has just taken a full cache down to the ceiling less the evicted
\* entries plus the one it inserted
C7_Witness ==
    /\ out.op = "put"
    /\ Len(RESPONSE_CACHE) = CacheCeiling + 1 - EvictCount
    /\ KeyOfCall(out) \in KeysOf(RESPONSE_CACHE)

(***************************************************************************)
(* Claims about the cache in the chat endpoint.                            *)
(***************************************************************************)
ChatStep == steps'["chat"] = steps["chat"] + 1

\* the entries a chat request stored for the question and target of the
\* request out reports, under whatever category, and that are younger than
\* CACHE_TTL
FreshEntriesFor(o) ==
    {i \in 1..Len(RESPONSE_CACHE) :
        /\ \E c \in CLASSIFICATION_CATEGORIES :
               RESPONSE_CACHE[i].key = o.base \o "_" \o o.target \o "_" \o c
        /\ now - RESPONSE_CACHE[i].timestamp < CACHE_TTL}

\* C8: with caching enabled, a chat request whose question (up to case and
\* outer whitespace) and target have a response in the cache, stored by an
\* earlier chat request less than CACHE_TTL ago, is answered with that stored
\* response and runs no handler.
C8_RepeatedRequestAnsweredFromCache ==
    [][(/\ ChatStep
        /\ out'.status \in {200, 500}
        /\ out'.enable_cache
        /\ FreshEntriesFor(out') # {})
       => /\ out'.from_cache
          /\ ~out'.handled
          /\ \E i \in FreshEntriesFor(out') : out'.response = RESPONSE_CACHE[i].response
      ]_vars

\* C9: no entry of the response cache holds a response of type
\* conversational or personal.
C9_NoConversationalOrPersonalCached ==
    \A i \in 1..Len(RESPONSE_CACHE) :
        RESPONSE_CACHE[i].response.response_type \notin {"conversational", "personal"}

\* a request with caching enabled has just been answered by the
\* conversational handler, after a request whose response is in the cache
C9_Witness ==
    /\ out.op = "chat"
    /\ out.status = 200
    /\ out.enable_cache
    /\ out.response.response_type \in {"conversational", "personal"}
    /\ Len(RESPONSE_CACHE) = 1
    /\ steps["chat"] = 2

(***************************************************************************)
(* Claims about the conversation memory.                                   *)
(***************************************************************************)
\* C10: each session's buffer holds at most HistoryLimit turns, and they are
\* the turns recorded last for that session, in recording order: the oldest
\* turns are the ones dropped.
C10_BufferIsLastTenTurns ==
    /\ DOMAIN CONVERSATION_MEMORY = DOMAIN recorded
    /\ \A s \in DOMAIN recorded :
        LET all == recorded[s]
            n   == Len(all)
            m   == IF n < HistoryLimit THEN n ELSE HistoryLimit
        IN  /\ Len(CONVERSATION_MEMORY[s]) = m
            /\ \A i \in 1..m : CONVERSATION_MEMORY[s][i] = all[n - m + i]

\* fifteen turns were recorded for one session, whose buffer starts at the sixth
C10_Witness ==
    \E s \in DOMAIN recorded :
        /\ Len(recorded[s]) = 15
        /\ Len(CONVERSATION_MEMORY[s]) = HistoryLimit
        /\ CONVERSATION_MEMORY[s][1].question = "q6"
        /\ CONVERSATION_MEMORY[s][HistoryLimit].question = "q15"

(***************************************************************************)
(* Claims about the router, the classifier and the handlers.               *)
(***************************************************************************)
\* C11: a classification of confidence CONFIDENCE_HIGH or more is routed to
\* the single handler of its category, whatever the question and the
\* follow-up info are.
C11_HighConfidenceSingleHandler ==
    (out.op = "route" /\ out.classification.confidence >= CONFIDENCE_HIGH)
        => /\ ~out.decision.use_hybrid
           /\ out.decision.primary_handler = out.classification.category

\* a question with trigger words, of high confidence, that is a follow-up
\* to a turn of another category, was routed
C11_Witness ==
    /\ out.op = "route"
    /\ out.classification.confidence = CONFIDENCE_HIGH
    /\ out.classification.category = "PDF_CONTENT"
    /\ out.question = "Explain the topic"
    /\ out.follow_up_info.is_follow_up
    /\ out.follow_up_info.previous_type = "general"
    /\ ~out.decision.use_hybrid

\* the types generate_hybrid_response has a handler for
HybridNamed == {"PDF_CONTENT", "PDF_META", "GENERAL", "PERSONAL"}

\* the handlers of the last generate_hybrid_response call that returned, in
\* the order of the call's list: of the named four only handle_pdf_content
\* can raise, for a document that is not stored or whose index takes
\* vectors of another embedder than the question's
HybridSuccessful ==
    SelectSeq(out.handlers,
              LAMBDA h : /\ h \in HybridNamed
                         /\ h = "PDF_CONTENT" =>
                               /\ out.doc_id \in DOMAIN DOC_TEXT
                               /\ DOC_INDEX[out.doc_id].embedder = out.embedder)

\* C12: generate_hybrid_response raises nothing; the responses it collects
\* are those of the handlers that returned, in the order of the list, one
\* handler's exception not keeping the later ones from running; with none
\* collected the result is the hybrid_error response, and otherwise it is a
\* synthesis of the collected responses and carries exactly their sources.
C12_HandlerFailuresContained ==
    out.op = "hybrid" =>
        /\ out.result.kind = "response"
        /\ [n \in 1..Len(out.responses) |-> out.responses[n].type] = HybridSuccessful
        /\ IF Len(HybridSuccessful) = 0
           THEN out.result.response.response_type = "hybrid_error"
           ELSE /\ out.result.response.response_type \in {"hybrid_synthesized", "hybrid_fallback"}
                /\ out.result.response.sources = AllSources(out.responses)

\* C13: synthesis returns a response whatever the language model does; it
\* invokes the model at most twice (one retry), and with a model that fails
\* twice or more the response is the concatenation (hybrid_fallback).
C13_SynthesisRetriesAtMostOnce ==
    (out.op = "hybrid" /\ Len(out.responses) > 0) =>
        /\ out.result.kind = "response"
        /\ out.invocations <= 2
        /\ (out.has_llm /\ out.failures >= 2)
              => out.result.response.response_type = "hybrid_fallback"

\* C14: what classify_question returns has one of the five categories, a
\* confidence between 0 and 1 and a reasoning; and whenever there is no
\* usable reply of the language model (it raised, gave no JSON, named an
\* unknown category, or gave a confidence that is no number or out of
\* range) it is the rule-based classification of the question.
C14_ClassificationWellFormed ==
    out.op = "classify" =>
        /\ out.result.category \in CLASSIFICATION_CATEGORIES
        /\ 0 <= out.result.confidence /\ out.result.confidence <= 100
        /\ out.result.reasoning # NoReasoning
        /\ (\/ ~out.has_llm
            \/ out.reply.kind # "json"
            \/ /\ out.reply.kind = "json"
               /\ \/ out.reply.category \notin CLASSIFICATION_CATEGORIES
                  \/ ~out.reply.numeric
                  \/ out.reply.confidence < 0
                  \/ out.reply.confidence > 100)
              => out.result = FallbackClassify(out.question)

\* the chunks of the member documents of collection c
MemberChunks(c) ==
    UNION {{DOC_TEXT[d][n] : n \in 1..Len(DOC_TEXT[d])}
              : d \in {DOCUMENT_COLLECTIONS[c][m] : m \in 1..Len(DOCUMENT_COLLECTIONS[c])}
                         \cap DOMAIN DOC_TEXT}

\* C15: for a collection that has a combined index,
\* handle_multi_document_content returns a response of the combined-index
\* search (its sources are chunks of member documents), whether the
\* question was embedded by the configured embedder or by the fallback one;
\* it neither raises nor returns without a response.
C15_MultiDocumentAlwaysResponds ==
    (out.op = "multi" /\ out.collection_id \in DOMAIN CROSS_DOC_INDEX) =>
        /\ out.result.kind = "response"
        /\ out.result.response.response_type \in
              {"multi_document_content", "multi_doc_error", "multi_doc_not_found"}
        /\ \A n \in 1..Len(out.result.response.sources) :
              out.result.response.sources[n] \in MemberChunks(out.collection_id)

\* C16: for a stored document, when the semantic embedding of the question
\* fails, handle_pdf_content goes on with the fallback embedder's vector and
\* returns a response; also for a document whose index holds semantic
\* vectors.
C16_EmbeddingFailureRecovered ==
    (/\ out.op = "pdf_content"
     /\ out.doc_id \in DOMAIN DOC_INDEX
     /\ ~USE_FAKE /\ ~out.vertex_ok)
        => out.result.kind = "response"

\* the places, in what index.search returned to the last handle_pdf_content
\* call, of the positions that are positions of the document's chunk list
PdfContentInRange ==
    {j \in 1..Len(out.indices) :
        0 <= out.indices[j] /\ out.indices[j] < Len(DOC_TEXT[out.doc_id])}

\* C17: a response of handle_pdf_content has at most 3 sources; they are the
\* document's chunks at the positions index.search returned, in that order,
\* the positions outside the chunk list (the padding of a document of fewer
\* than 3 chunks) dropped; it is pdf_content_not_found exactly when there
\* are none, and with some and no language model it is pdf_content_error.
C17_SourcesAreRetrievedChunks ==
    (out.op = "pdf_content" /\ out.result.kind = "response") =>
        \E r \in {out.result.response}, chunks \in {DOC_TEXT[out.doc_id]},
           places \in {PdfContentInRange} :
            /\ Len(r.sources) <= 3
            /\ Len(r.sources) = Cardinality(places)
            /\ \A n \in 1..Len(r.sources) :
                 \E j \in places :
                    /\ Cardinality({i \in places : i < j}) = n - 1
                    /\ r.sources[n] = chunks[out.indices[j] + 1]
            /\ (r.response_type = "pdf_content_not_found") <=> (places = {})
            /\ (places # {} /\ ~out.has_llm) => r.response_type = "pdf_content_error"

\* a one-chunk document was asked about without a language model: the
\* search padded its result, and the response carries the one chunk
C17_Witness ==
    /\ out.op = "pdf_content"
    /\ out.result.kind = "response"
    /\ out.indices = << 0, -1, -1 >>
    /\ ~out.has_llm
    /\ out.result.response.response_type = "pdf_content_error"
    /\ out.result.response.sources = DOC_TEXT[out.doc_id]

(***************************************************************************)
(* Claims about the validation of the endpoints.                           *)
(***************************************************************************)
\* the last chat request named a document or a collection that is not stored
ChatNamesUnknown ==
    \/ out'.doc_id # "" /\ out'.doc_id \notin DOMAIN DOC_TEXT
    \/ out'.collection_id # "" /\ out'.collection_id \notin DOMAIN DOCUMENT_COLLECTIONS

\* C18: a chat request with neither doc_id nor collection_id is answered 400,
\* one whose doc_id or collection_id is not stored is answered 404; neither
\* is classified or handled, and conversation memory, response cache,
\* document store and collection store stay as they were.
C18_RejectedChatChangesNothing ==
    [][ChatStep =>
        /\ (out'.doc_id = "" /\ out'.collection_id = "") => out'.status = 400
        /\ (~(out'.doc_id = "" /\ out'.collection_id = "") /\ ChatNamesUnknown)
              => out'.status = 404
        /\ ((out'.doc_id = "" /\ out'.collection_id = "") \/ ChatNamesUnknown)
              => /\ ~out'.handled
                 /\ UNCHANGED << CONVERSATION_MEMORY, RESPONSE_CACHE, recorded, storeVars,
                                 collVars >>
      ]_vars

\* a request for a document that is not stored was refused after an earlier
\* request had left a turn in the memory and an entry in the cache
C18_Witness ==
    /\ out.op = "chat"
    /\ out.status = 404
    /\ out.doc_id = "d2"
    /\ CONVERSATION_MEMORY # EmptyDict
    /\ RESPONSE_CACHE # << >>

\* C19: the question "Hello!" asked with neither doc_id nor collection_id and
\* without a language model is answered with a conversational response: a
\* text that is not empty, no sources, classified CONVERSATIONAL at
\* confidence 0.8 by the rules.
C19_GreetingWithoutDocument ==
    (/\ out.op = "chat"
     /\ out.question = "Hello!"
     /\ out.doc_id = "" /\ out.collection_id = ""
     /\ ~out.has_llm)
        => /\ out.status = 200
           /\ out.response.response_type = "conversational"
           /\ out.response.answer # ""
           /\ out.response.sources = << >>
           /\ out.response.classification.category = "CONVERSATIONAL"
           /\ out.response.classification.confidence = CONFIDENCE_HIGH

CollectionStep == steps'["collection"] = steps["collection"] + 1

\* C20: a creation of a collection, through the endpoint or by the manager's
\* create_document_collection itself, fails when one of its doc_ids is not
\* in the document store; and after a creation that failed there is no
\* collection entry, no combined index and no vector-to-document map under
\* its collection id.
C20_FailedCreationRecordsNothing ==
    [][CollectionStep =>
        /\ (\E i \in 1..Len(out'.doc_ids) : out'.doc_ids[i] \notin DOMAIN DOC_TEXT)
              => out'.status # 200
        /\ out'.status # 200
              => /\ out'.collection_id \notin DOMAIN DOCUMENT_COLLECTIONS'
                 /\ out'.collection_id \notin DOMAIN CROSS_DOC_INDEX'
                 /\ out'.collection_id \notin DOMAIN CROSS_DOC_MAP'
      ]_vars

(***************************************************************************)
(* Claims about collections, visibility and routing.                       *)
(***************************************************************************)
\* the members of a list of doc_ids that have an index
RECURSIVE SumIndexed(_)
SumIndexed(doc_ids) ==
    IF Len(doc_ids) = 0 THEN 0
    ELSE (IF Head(doc_ids) \in DOMAIN DOC_INDEX THEN ntotal(DOC_INDEX[Head(doc_ids)]) ELSE 0)
         + SumIndexed(Tail(doc_ids))

\* C21: a creation that succeeds for the name and the ordered doc_ids of a
\* collection already registered returns the id that collection is
\* registered under and adds no entry; afterwards the entry holds the
\* doc_ids, and the combined index and the map under the id have the size of
\* one build: the number of vectors of the members' indexes.
C21_CreationIsIdempotent ==
    [][(CollectionStep /\ out'.status = 200) =>
        /\ \A c \in DOMAIN DOCUMENT_COLLECTIONS :
              DOCUMENT_COLLECTIONS[c] = out'.doc_ids =>
                /\ out'.collection_id = c
                /\ DOMAIN DOCUMENT_COLLECTIONS' = DOMAIN DOCUMENT_COLLECTIONS
        /\ DOCUMENT_COLLECTIONS'[out'.collection_id] = out'.doc_ids
        /\ out'.collection_id \in DOMAIN CROSS_DOC_INDEX' =>
              /\ ntotal(CROSS_DOC_INDEX'[out'.collection_id]) = SumIndexed(out'.doc_ids)
              /\ Len(CROSS_DOC_MAP'[out'.collection_id]) = SumIndexed(out'.doc_ids)
      ]_vars

\* a collection of two documents was created a second time
C21_Witness ==
    /\ out.op = "create_collection"
    /\ out.status = 200
    /\ out.existed
    /\ Len(out.doc_ids) = 2
    /\ Cardinality(DOMAIN DOCUMENT_COLLECTIONS) = 1
    /\ out.collection_id \in DOMAIN CROSS_DOC_INDEX
    /\ ntotal(CROSS_DOC_INDEX[out.collection_id]) = SumIndexed(out.doc_ids)

\* C22: in every state a request can see, a document that passes chat's
\* existence check (it has chunks) has its index and its metadata, and a
\* collection that passes it (it is in the registry) has its combined index
\* and its map.
C22_VisibleOnlyWhenComplete ==
    /\ \A d \in DOMAIN DOC_TEXT : d \in DOMAIN DOC_INDEX /\ d \in DOMAIN DOC_METADATA
    /\ \A c \in DOMAIN DOCUMENT_COLLECTIONS :
          c \in DOMAIN CROSS_DOC_INDEX /\ c \in DOMAIN CROSS_DOC_MAP

\* ---------------------------------------------------------------------------
\* Claims about the persistence of the chats
\* ---------------------------------------------------------------------------

\* the stored rows of one user: the chats, the messages of the user or of the
\* chats of the user, and the chat documents of those chats
StoredOf(tables, user_id) ==
    [chats |-> RowsWhere(tables.chats, LAMBDA row : row.user_id = user_id),
     messages |-> RowsWhere(tables.messages, LAMBDA row : row.user_id = user_id \/ (row.chat_id \in DOMAIN tables.chats /\ tables.chats[row.chat_id].user_id = user_id)),
     chat_documents |-> {cd \in tables.chat_documents : cd.chat_id \in DOMAIN tables.chats /\ tables.chats[cd.chat_id].user_id = user_id}]

\* C23: the persistence of the chats is isolated per user: a save by one
\* user leaves the stored chats, messages and chat documents of every other
\* user as they were, and a load for a user returns only chats and messages
\* that this user saved.
C23_ChatsIsolatedPerUser ==
    [][/\ out'.op = "save_chats" =>
            \A other \in Users \ {out'.user_id} : StoredOf(db', other) = StoredOf(db, other)
       /\ out'.op = "load_chats" =>
            /\ db' = db
            /\ \A i \in DOMAIN out'.chats.history :
                  /\ out'.chats.history[i].title = "chat of " \o out'.user_id
                  /\ db.chats[out'.chats.history[i].id].user_id = out'.user_id
            /\ DOMAIN out'.chats.messages = {out'.chats.history[i].id : i \in DOMAIN out'.chats.history}
            /\ \A c \in DOMAIN out'.chats.messages : \A i \in DOMAIN out'.chats.messages[c] :
                  /\ out'.chats.messages[c][i].content = "message of " \o out'.user_id
                  /\ db.messages[out'.chats.messages[c][i].id].user_id = out'.user_id]_vars

\* a load for one user that returns a chat with a message while another
\* user has a chat with a message stored
C23_Witness ==
    /\ out.op = "load_chats"
    /\ \E c \in DOMAIN out.chats.messages : out.chats.messages[c] # << >>
    /\ \E m \in DOMAIN db.messages : db.messages[m].user_id # out.user_id

\* ---------------------------------------------------------------------------
\* Claims about the decision table of the router
\* ---------------------------------------------------------------------------

\* a routed call whose follow-up names a previous category other than the
\* current one
RoutedAcrossCategories ==
    /\ out.follow_up_info.is_follow_up
    /\ Upper(out.follow_up_info.previous_type) # out.classification.category

\* a routed call of medium confidence for a category, with one of the phrases
\* in the question
RoutedMedium(category, phrases) ==
    /\ out.classification.confidence >= CONFIDENCE_LOW
    /\ out.classification.category = category
    /\ \E t \in phrases : Contains(Lower(out.question), t)

\* C24: below the high confidence the router follows its ordered table: a
\* follow-up from another category gives a hybrid over the current and the
\* previous category; else a medium-confidence PDF_CONTENT question with an
\* explanatory phrase gives PDF_CONTENT with GENERAL; else a medium-confidence
\* PDF_META question with a meta phrase gives PDF_META with PDF_CONTENT; else
\* the classified category alone, as for every low confidence without such a
\* follow-up.
C24_DecisionTableBelowHigh ==
    (out.op = "route" /\ out.classification.confidence < CONFIDENCE_HIGH) =>
        out.decision =
            IF RoutedAcrossCategories
            THEN Hybrid(<< out.classification.category, Upper(out.follow_up_info.previous_type) >>)
            ELSE IF RoutedMedium("PDF_CONTENT", {"explain", "what is", "define", "how does"})
            THEN Hybrid(<< "PDF_CONTENT", "GENERAL" >>)
            ELSE IF RoutedMedium("PDF_META", {"about", "topic", "discusses", "covers"})
            THEN Hybrid(<< "PDF_META", "PDF_CONTENT" >>)
            ELSE SingleHandler(out.classification.category)

\* a medium-confidence PDF_CONTENT question with an explanatory phrase that
\* follows a PDF_CONTENT turn, routed to PDF_CONTENT with GENERAL
C24_Witness ==
    /\ out.op = "route"
    /\ out.classification.confidence < CONFIDENCE_HIGH
    /\ out.follow_up_info.is_follow_up
    /\ ~RoutedAcrossCategories
    /\ out.decision = Hybrid(<< "PDF_CONTENT", "GENERAL" >>)

\* ---------------------------------------------------------------------------
\* Claims about the turns of a session
\* ---------------------------------------------------------------------------

\* a step in which a chat request got as far as its handler
ChatHandledStep == steps' # steps /\ out'.op = "chat" /\ out'.handled

\* the turns of the request's session before the request
TurnsBefore == HistoryOf(CONVERSATION_MEMORY, out'.session_id)

\* C25: when a chat request is flagged as a follow-up, the previous type
\* handed to the router is the classification category of the turn before
\* the request, one of the five categories, and a hybrid list holds only
\* names of the five categories.
C25_PreviousCategoryOfPreviousTurn ==
    [][(ChatHandledStep /\ out'.follow_up_info.is_follow_up /\ TurnsBefore # << >>) =>
            /\ out'.follow_up_info.previous_type \in CLASSIFICATION_CATEGORIES
            /\ out'.follow_up_info.previous_type = TurnsBefore[Len(TurnsBefore)].classification.category
            /\ (out'.status = 200 /\ out'.response.routing_decision.use_hybrid) =>
                  \A i \in DOMAIN out'.response.routing_decision.handlers :
                      out'.response.routing_decision.handlers[i] \in CLASSIFICATION_CATEGORIES]_vars

\* C26: the first chat request of a session is no follow-up whatever its
\* question, and the previous turn of a follow-up is the last turn an
\* earlier request of the session recorded.
C26_FollowUpLooksAtEarlierRequests ==
    [][ChatHandledStep =>
            IF TurnsBefore = << >> THEN ~out'.follow_up_info.is_follow_up
            ELSE out'.follow_up_info.is_follow_up =>
                    /\ out'.follow_up_info.previous_question = TurnsBefore[Len(TurnsBefore)].question
                    /\ out'.follow_up_info.context_turns = Len(TurnsBefore)]_vars

\* C30: an answered chat request appends one turn to the history of its
\* session, up to the limit of ten turns, and reports the length of the
\* history with that turn as its conversation_turn.
C30_OneTurnPerRequest ==
    [][(steps' # steps /\ out'.op = "chat" /\ out'.status = 200) =>
            \E turns \in {IF Len(TurnsBefore) < HistoryLimit THEN Len(TurnsBefore) + 1 ELSE HistoryLimit} :
                /\ Len(HistoryOf(CONVERSATION_MEMORY', out'.session_id)) = turns
                /\ out'.response.conversation_turn = turns]_vars

\* ---------------------------------------------------------------------------
\* Claims about the dispatch of the hybrid handlers
\* ---------------------------------------------------------------------------

\* the categories of the last generate_hybrid_response call whose handler
\* does not raise: every category but PDF_CONTENT for a document that is not
\* stored or whose index takes vectors of another embedder
HybridNotRaising ==
    SelectSeq(out.handlers,
              LAMBDA h : /\ h \in CLASSIFICATION_CATEGORIES
                         /\ h = "PDF_CONTENT" =>
                               /\ out.doc_id \in DOMAIN DOC_TEXT
                               /\ DOC_INDEX[out.doc_id].embedder = out.embedder)

\* C27: generate_hybrid_response calls the handler of every category its
\* list names, CONVERSATIONAL included, and collects a response from each
\* handler that did not raise.
C27_EveryNamedCategoryDispatched ==
    out.op = "hybrid" =>
        \A i \in DOMAIN HybridNotRaising :
            \E n \in DOMAIN out.responses : out.responses[n].type = HybridNotRaising[i]

\* ---------------------------------------------------------------------------
\* Claims about the rule-based classifier
\* ---------------------------------------------------------------------------

\* the pattern groups in the order of the rules, each with its category and
\* its confidence in hundredths
RuleGroups ==
    << [patterns |-> conversational_patterns, category |-> "CONVERSATIONAL", confidence |-> 80],
       [patterns |-> personal_patterns, category |-> "PERSONAL", confidence |-> 80],
       [patterns |-> meta_patterns, category |-> "PDF_META", confidence |-> 70],
       [patterns |-> general_patterns, category |-> "GENERAL", confidence |-> 60] >>

\* the groups with a pattern that matches the question of the last call
GroupsMatching == {g \in DOMAIN RuleGroups : AnySearch(RuleGroups[g].patterns, Strip(Lower(out.question)))}

\* C28: without a language model the first of the groups conversational,
\* personal, meta, general with a matching pattern decides the category, at
\* 0.8, 0.8, 0.7 and 0.6, whatever later groups match; with no match a
\* question of more than 10 characters, surrounding blanks not counted, that
\* holds a question mark is PDF_CONTENT at 0.5 and any other CONVERSATIONAL
\* at 0.3.
C28_FirstMatchingGroupDecides ==
    (out.op = "classify" /\ ~out.has_llm) =>
        IF GroupsMatching # {}
        THEN \E g \in GroupsMatching :
                /\ \A other \in GroupsMatching : g <= other
                /\ out.result.category = RuleGroups[g].category
                /\ out.result.confidence = RuleGroups[g].confidence
        ELSE IF Len(Strip(out.question)) > 10 /\ \E i \in 1..Len(out.question) : CharAt(out.question, i) = "?"
        THEN out.result.category = "PDF_CONTENT" /\ out.result.confidence = 50
        ELSE out.result.category = "CONVERSATIONAL" /\ out.result.confidence = 30

\* a question that matches the conversational, the meta and the general
\* patterns, classified as CONVERSATIONAL at 0.8
C28_Witness ==
    /\ out.op = "classify"
    /\ ~out.has_llm
    /\ Cardinality(GroupsMatching) = 3
    /\ out.result.category = "CONVERSATIONAL"
    /\ out.result.confidence = 80

\* ---------------------------------------------------------------------------
\* Claims about the id of a collection
\* ---------------------------------------------------------------------------

\* the lists that name the members of the last created collection in some
\* order
SameMembers ==
    {l \in IdLists(DocIds, MaxMembers) :
        /\ Len(l) = Len(out.doc_ids)
        /\ {l[i] : i \in DOMAIN l} = {out.doc_ids[i] : i \in DOMAIN out.doc_ids}}

\* C29: the id of a collection depends on its name and on the set of its
\* members only: the same name with the same members in any order gives the
\* id of the collection just created.
C29_IdFromSortedMembers ==
    (out.op = "create_document_collection" /\ out.status = 200) =>
        \A l \in SameMembers : \A name \in CollectionNames :
            CollectionId(name, l) = out.collection_id

====
